---------------------------- MODULE Spec2Model ----------------------------
(***************************************************************************)
(* ThreadX: BufferStruct (lock, notify/wait, dirty bits), SharedObject     *)
(* (mutation cycle) and the ThreadX worker router, for two workers that    *)
(* share one SharedArrayBuffer.                                            *)
(*                                                                         *)
(* Worker 1 is the main thread (workerId 1, browser-tests register the     *)
(* TestWorker from it); worker 2 is the dedicated worker (workerId 2).     *)
(***************************************************************************)
EXTENDS Integers, Sequences, FiniteSets, TLC

(***************************************************************************)
(* Bounds of the model.                                                    *)
(***************************************************************************)
\* lockId is Math.floor(Math.random() * 0xffffffff): 0 .. 0xfffffffe.  The
\* model draws it from 0 .. MaxLockId.
MaxLockId == 2
\* Property values are 0 .. MaxVal (a fresh buffer holds 0 everywhere).
MaxVal == 1
\* Property writes (SetProp / SetPair steps) the workers make in one run, in
\* total.
MaxWrites == 2
\* mutationMicrotask() calls of one worker waiting for the lock at a time.
MaxPend == 1
\* User messages (sendMessage / sendMessageAsync calls) the routers send in
\* one run, in total.
MaxSends == 1
\* shareObjects() calls of the main router.
MaxShares == 1
\* emit() calls made by user code on the SharedObject, in total.
MaxEmits == 2
\* shareObjects() calls of the main router in the object-lifecycle
\* specification; the worker's factory builds one instance per call.
MaxReshares == 2
\* forgetObjects() and destroy() calls made by user code, in total.
MaxUserOps == 2
\* Assign-and-flush steps of the main worker's user code in the lifecycle
\* specification.
MaxFlushes == 1
\* ThreadX.init / generateUniqueId.  IdStride stands for the 10000000000000
\* of the constructor, at a scale TLC's integers can hold.
IdStride == 4
\* ThreadX instances constructed, and ThreadX.init / ThreadX.destroy calls
\* made, in the static specification.
MaxInits == 3
MaxStaticOps == 3

\* TestBufferStruct: numProp1, numProp2 (propNum 0 and 2; numbered 1, 2 here).
NumProps == 2
Props == 1 .. NumProps
Values == 0 .. MaxVal

Workers == {1, 2}
MainWorker == 1
Peer(w) == IF w = 1 THEN 2 ELSE 1

LockIds == 0 .. MaxLockId

\* The SharedObject instances a worker can hold over the one buffer: the main
\* worker creates instance 1; the worker's factory builds one per shareObjects
\* message.
Insts == 1 .. MaxReshares

VARIABLES
  \* ---- the SharedArrayBuffer header (BufferStruct, Int32 words)
  lockWord,      \* int32array[LOCK_INT32_INDEX]
  notifyWord,    \* int32array[NOTIFY_INT32_INDEX]
  dirty,         \* int32array[DIRTY_INT32_INDEX]: the set of dirty propNums
  propVal,       \* the property payloads
  \* ---- one BufferStruct view per worker
  lockId,        \* BufferStruct.lockId of the worker's view
  \* ---- lock() / lockAsync() calls of each worker
  lkParked,      \* calls parked on the lock word (Atomics.wait / waitAsync)
  lkWoken,       \* calls woken (or spinning) and about to retry compareExchange
  lkMode,        \* "sync" (lock) or "async" (lockAsync) of the worker's calls
  lkCb,          \* what the callback of the worker's calls does
  hold,          \* "none" | "cb" (in the callback) | "notify" (stored 0, before Atomics.notify)
  outcome,       \* how the worker's last lock call ended
  \* ---- one SharedObject per worker over the buffer
  soState,       \* "absent" | "ctor" (constructor running) | "live"
  curProps,      \* SharedObject.curProps
  mutations,     \* SharedObject.mutations (the keys set)
  mutationsQueued, \* SharedObject.mutationsQueued
  waitPromise,   \* the latest waitAsync handle: "null" | "parked" | "ok" | "ne" | "dead"
  initialized,   \* SharedObject.initialized
  epc,           \* where the worker is in the constructor / _executeMutations
  eTodo,         \* _executeMutations: keys of the captured mutations still to flush
  eIdx,          \* index of the forEach over propDefs (constructor reads, processDirtyProperties)
  eExpected,     \* _executeMutations: expectedNotifyValue
  lastChange,    \* <<newValue>> of the last onPropertyChange(p, ..) call, per property (<<>>: none)
  changeCalls,   \* number of onPropertyChange calls
  nWrites,       \* writes made so far
  lastWrite,     \* <<value>> of the worker's last write to the shared object, per property
  \* ---- one ThreadX router per worker
  rtUp,          \* ThreadX.init() has run on the worker
  ready,         \* the peer's ready promise (workerReadyPromises) is resolved
  sendQ,         \* sendMessageAsync calls awaiting the ready promise, in call order
  chan,          \* messages posted to the worker and not yet dispatched
  nextAsyncMsgId,   \* ThreadX.nextAsyncMsgId
  pendingAsyncMsgs, \* ThreadX.pendingAsyncMsgs: <<id, call, type>> entries
  nCalls,        \* send calls made so far (each call gets the next number)
  postLog,       \* every message the worker has posted, in order
  settleLog,     \* <<call, id, how>>: promises of sendMessageAsync calls settled
  respSeen,      \* <<id, error>> of the response messages dispatched
  known,         \* the SharedObject is in ThreadX.sharedObjects (and has metadata)
  shareConfirmed, \* sharedObjectData.shareConfirmed
  emitQueue,     \* sharedObjectData.emitQueue (<<>>: null or empty)
  suppress,      \* ThreadX.suppressSharedObjectEmit
  delivered,     \* inbound sharedObjectEmit dispatches: the event and what the listener did
  evLog,         \* per event emitted by user code: who emitted it and what __sharedObjectEmit did
  \* ---- the SharedObject instances of each worker over the one buffer
  soLife,        \* per instance: "none" | "live" | "queued" | "parked" | "destroyed"
  mapInst,       \* <<i>>: the instance ThreadX.sharedObjects holds under the id (<<>>: none)
  soData,        \* the instances with an entry in ThreadX.sharedObjectData
  destroyCause,  \* per instance: who made the destroy() call that took effect
  beforeDestroy, \* per instance: 'beforeDestroy' emits
  onDestroyCalls, \* per instance: onDestroy() calls
  afterDestroy,  \* per instance: 'afterDestroy' emits
  userOps,       \* the forgetObjects() and destroy() calls made by user code: who,
                 \* which, the send calls made before it (seq) and whether the
                 \* object was in the caller's map (sent: forgetObjects sends)
  shareHist,     \* per shareObjects() call: the send calls made before it (seq),
                 \* userOps at the call (ops), whether the id was in the map
                 \* already (known) and whether a message was sent (sent)
  \* ---- closeWorkerAsync() of the main worker, and the peer's global scope
  registered,    \* the peer is in ThreadX.workers and workerReadyPromises of main
  closeState,    \* the closeWorkerAsync call: "none" | "racing" | "graceful" | "forced" | "rejected"
  closeCall,     \* <<c>>: the send call of the close message (<<>>: none)
  closeTimer,    \* the setTimeout of the call: "none" | "armed" | "fired"
  terminated,    \* worker.terminate() has been called on the peer
  closed,        \* the peer has run resolvedGlobal.close()
  \* ---- the process-wide slot of each worker and the routers constructed
  THREADX,       \* resolvedGlobal.THREADX: <<r>> (router r) or <<>> (not set)
  routers,       \* the ThreadX instances constructed: host, workerId, workerName, nextUniqueId
  staticLog,     \* the last ThreadX.init / ThreadX.destroy call: number, caller, outcome
  issued,        \* the ids generateUniqueId has returned: router, call number k, id
  lastStruct,    \* <<s>>: the BufferStruct created last, the call that made its id, its id
  \* ---- one use of the typeId codec of buffer-struct-utils
  codec,         \* the input (a tag or a 32-bit word) and what each function returned
  \* ---- one BufferStruct no other worker has a view of
  struct,        \* its dirty / undefined words, payloads and the last call made on it
  \* ---- wait / waitAsync / notify called directly on two views of one buffer
  waiters,       \* the notify word, each view's wait call and notify call
  \* ---- what the running cycle of each worker found when it started
  cyc,           \* per worker: did it process dirty properties, the dirty bits and payloads then
  \* ---- the event loop of one worker that owns a SharedObject, job by job
  loop,          \* its microtask queue, parked lockAsync calls, destroying / struct of the object
  \* ---- lock / lockAsync of three views, compareExchange and wait as separate steps
  park           \* per view: its lock id, where its call stands, the value its wait expects

bufVars == <<notifyWord, dirty, propVal>>
lockVars == <<lockWord, lockId, lkParked, lkWoken, lkMode, lkCb, hold, outcome>>
soVars == <<soState, curProps, mutations, mutationsQueued, waitPromise,
            initialized, epc, eTodo, eIdx, eExpected, lastChange, changeCalls,
            nWrites, lastWrite>>
rtVars == <<rtUp, ready, sendQ, chan, nextAsyncMsgId, pendingAsyncMsgs, nCalls,
            postLog, settleLog, respSeen, known, shareConfirmed, emitQueue,
            suppress, delivered, evLog>>
lifeVars == <<soLife, mapInst, soData, destroyCause, beforeDestroy,
              onDestroyCalls, afterDestroy, userOps, shareHist>>
closeVars == <<registered, closeState, closeCall, closeTimer, terminated,
               closed>>
staticVars == <<THREADX, routers, staticLog, issued, lastStruct>>
extVars == <<codec, struct, waiters, cyc, loop, park>>
auxVars == <<closeVars, staticVars, extVars>>
vars == <<bufVars, lockVars, soVars, rtVars, lifeVars, auxVars>>

(***************************************************************************)
(* BufferStruct.lock / lockAsync                                           *)
(***************************************************************************)
\* Atomics.compareExchange(int32array, LOCK_INT32_INDEX, 0, lockId): the
\* word afterwards, and the value returned (the word before).
CompareExchangeStore(word, id) == IF word = 0 THEN id ELSE word
CompareExchangeLoad(word) == word

\* Atomics.wait throws "cannot be called in this context" on the main
\* thread, where lock() spins; a dedicated worker blocks.
CanAtomicsWait(w) == w # MainWorker

\* The worker's thread is at a task boundary: it runs no callback, no
\* constructor, is not blocked in a synchronous lock() and has no microtask
\* queued.
ThreadFree(w) ==
  /\ hold[w] = "none"
  /\ epc[w] = "idle"
  /\ ~mutationsQueued[w]
  /\ ~(lkMode[w] = "sync" /\ lkParked[w] + lkWoken[w] > 0)

\* One compareExchange of a call of worker w, then the callback or the wait
\* on the lock word.  first: the call's first attempt (not a retry).
TryAcquire(w, first) ==
  LET origLock == CompareExchangeLoad(lockWord) IN
  /\ lockWord' = CompareExchangeStore(lockWord, lockId[w])
  /\ IF origLock = 0
       THEN /\ hold' = [hold EXCEPT ![w] = "cb"]
            /\ epc' = IF lkCb'[w] = "exec" THEN [epc EXCEPT ![w] = "check"] ELSE epc
            /\ lkParked' = lkParked
            /\ lkWoken' = IF first THEN lkWoken
                          ELSE [lkWoken EXCEPT ![w] = @ - 1]
       ELSE /\ hold' = hold
            /\ epc' = epc
            /\ IF lkMode'[w] = "sync" /\ ~CanAtomicsWait(w)
                 THEN \* busy spin: retry at once
                      /\ lkParked' = lkParked
                      /\ lkWoken' = IF first THEN [lkWoken EXCEPT ![w] = @ + 1]
                                    ELSE lkWoken
                 ELSE \* park on the lock word, expecting origLock
                      /\ lkParked' = [lkParked EXCEPT ![w] = @ + 1]
                      /\ lkWoken' = IF first THEN lkWoken
                                    ELSE [lkWoken EXCEPT ![w] = @ - 1]

\* bufferStruct.lock(callback) or lockAsync(callback) is called.
CallLock(w, mode, cb) ==
  /\ ThreadFree(w)
  /\ lkParked[w] = 0 /\ lkWoken[w] = 0   \* the caller awaits each call
  /\ lkMode' = [lkMode EXCEPT ![w] = mode]
  /\ lkCb' = [lkCb EXCEPT ![w] = cb]
  /\ TryAcquire(w, TRUE)
  /\ UNCHANGED <<lockId, outcome, bufVars>>
  /\ UNCHANGED <<soState, curProps, mutations, mutationsQueued, waitPromise,
                 initialized, eTodo, eIdx, eExpected, lastChange, changeCalls,
                 nWrites, lastWrite>>
  /\ UNCHANGED <<rtVars, lifeVars, auxVars>>

\* The loop of lock / lockAsync: compareExchange again after the wait.
RetryAcquire(w) ==
  /\ hold[w] = "none" /\ epc[w] = "idle" /\ ~mutationsQueued[w]
  /\ lkWoken[w] > 0
  /\ UNCHANGED <<lkMode, lkCb>>
  /\ TryAcquire(w, FALSE)
  /\ UNCHANGED <<lockId, outcome, bufVars>>
  /\ UNCHANGED <<soState, curProps, mutations, mutationsQueued, waitPromise,
                 initialized, eTodo, eIdx, eExpected, lastChange, changeCalls,
                 nWrites, lastWrite>>
  /\ UNCHANGED <<rtVars, lifeVars, auxVars>>

\* A release that leaves the holder's id in the lock word.
ReleaseStoreKeepsId(w) == lockId[w]
\* finally { Atomics.store(int32array, LOCK_INT32_INDEX, 0); ... }
ReleaseStore(w) == 0

\* The callback ends (returns or throws; _executeMutations has run to its
\* end); the finally block stores 0.
CallbackEnds(w) ==
  /\ hold[w] = "cb"
  /\ lkCb[w] = "exec" => epc[w] = "done"
  /\ lockWord' = ReleaseStore(w)
  /\ hold' = [hold EXCEPT ![w] = "notify"]
  /\ epc' = [epc EXCEPT ![w] = "idle"]
  /\ UNCHANGED <<lockId, lkParked, lkWoken, lkMode, lkCb, outcome>>
  /\ UNCHANGED <<bufVars, soState, curProps, mutations, mutationsQueued,
                 waitPromise, initialized, eTodo, eIdx, eExpected, lastChange,
                 changeCalls, nWrites, lastWrite>>
  /\ UNCHANGED <<rtVars, lifeVars, auxVars>>

\* Atomics.notify(int32array, LOCK_INT32_INDEX): every call parked on the
\* lock word is woken.  Then lock()/lockAsync() returns the callback's result
\* or rethrows.
ReleaseNotify(w) ==
  /\ hold[w] = "notify"
  /\ lkWoken' = [v \in Workers |-> lkWoken[v] + lkParked[v]]
  /\ lkParked' = [v \in Workers |-> 0]
  /\ hold' = [hold EXCEPT ![w] = "none"]
  /\ outcome' = [outcome EXCEPT ![w] =
                   IF lkCb[w] = "throws" THEN "threw" ELSE "returned"]
  /\ UNCHANGED <<lockWord, lockId, lkMode, lkCb>>
  /\ UNCHANGED <<bufVars, soVars>>
  /\ UNCHANGED <<rtVars, lifeVars, auxVars>>

\* No SharedObject exists (the BufferStruct is used directly).
NoSharedObjects ==
  /\ soState = [w \in Workers |-> "absent"]
  /\ curProps = [w \in Workers |-> [p \in Props |-> 0]]
  /\ mutations = [w \in Workers |-> {}]
  /\ mutationsQueued = [w \in Workers |-> FALSE]
  /\ waitPromise = [w \in Workers |-> "null"]
  /\ initialized = [w \in Workers |-> FALSE]
  /\ epc = [w \in Workers |-> "idle"]
  /\ eTodo = [w \in Workers |-> {}]
  /\ eIdx = [w \in Workers |-> 0]
  /\ eExpected = [w \in Workers |-> 0]
  /\ lastChange = [w \in Workers |-> [p \in Props |-> <<>>]]
  /\ changeCalls = [w \in Workers |-> 0]
  /\ nWrites = [w \in Workers |-> 0]
  /\ lastWrite = [w \in Workers |-> [p \in Props |-> <<>>]]

\* The routers exist (main) or are still to start (worker); nothing has been
\* sent, shared or emitted.
RouterAtRest ==
  /\ rtUp = [w \in Workers |-> w = MainWorker]
  /\ ready = [w \in Workers |-> FALSE]
  /\ sendQ = [w \in Workers |-> <<>>]
  /\ chan = [w \in Workers |-> <<>>]
  /\ nextAsyncMsgId = [w \in Workers |-> 0]
  /\ pendingAsyncMsgs = [w \in Workers |-> {}]
  /\ nCalls = 0
  /\ postLog = [w \in Workers |-> <<>>]
  /\ settleLog = [w \in Workers |-> <<>>]
  /\ respSeen = [w \in Workers |-> {}]
  /\ known = [w \in Workers |-> FALSE]
  /\ shareConfirmed = [w \in Workers |-> FALSE]
  /\ emitQueue = [w \in Workers |-> <<>>]
  /\ suppress = [w \in Workers |-> FALSE]
  /\ delivered = [w \in Workers |-> <<>>]
  /\ evLog = <<>>

(***************************************************************************)
(* ThreadX.init / ThreadX.destroy / static getters / generateUniqueId      *)
(***************************************************************************)
\* SafeInteger stands for 2^53, the first integer whose successor is no
\* double; MaxSafeWorkerId stands for 899, the largest workerId whose first
\* IdStride - 1 ids all lie below it.  The options offer one workerId more.
SafeInteger == IdStride * IdStride
MaxSafeWorkerId == (SafeInteger \div IdStride) - 1
MaxWorkerId == MaxSafeWorkerId + 1
\* generateUniqueId() calls per router: one more than the stride.
MaxIds == IdStride + 1

\* The double nearest to the integer x (ties to even), for x below twice
\* SafeInteger: every integer up to SafeInteger is a double, above it only
\* the even ones are.
Float64(x) ==
  IF x <= SafeInteger \/ x % 2 = 0 THEN x
  ELSE IF (x - 1) % 4 = 0 THEN x - 1 ELSE x + 1

WorkerIdOpts == 1 .. MaxWorkerId
WorkerNames == {"main", "worker"}
ThreadXOptions == [workerId : WorkerIdOpts, workerName : WorkerNames]
MainOptions == [workerId |-> 1, workerName |-> "main"]
WorkerOptions == [workerId |-> 2, workerName |-> "worker"]

\* private constructor(options): workerId, workerName and
\* nextUniqueId = options.workerId * 10000000000000 + 1.
NewThreadX(w, o) ==
  [host |-> w, workerId |-> o.workerId, workerName |-> o.workerName,
   nextUniqueId |-> Float64(Float64(o.workerId * IdStride) + 1), calls |-> 0]

\* return ++this.nextUniqueId instead.
UniqueIdPreIncrement(r) == Float64(r.nextUniqueId + 1)

\* generateUniqueId(): return this.nextUniqueId++.
UniqueIdReturned(r) == r.nextUniqueId
UniqueIdAfter(r) == [r EXCEPT !.nextUniqueId = Float64(@ + 1), !.calls = @ + 1]

\* The record kept of the k-th generateUniqueId() call of router r.
IssuedBy(r) ==
  [router |-> r, k |-> routers[r].calls + 1, id |-> UniqueIdReturned(routers[r])]

\* No call of the typeId codec is under way.
CodecAtRest ==
  codec = [in |-> "none", tag |-> <<>>, bytes |-> <<>>, typeId |-> <<>>,
           str |-> <<>>, valid |-> <<>>, threw |-> FALSE]

\* No cycle has looked at the buffer yet.
NoCycle ==
  [on |-> FALSE, dirty |-> {}, buf |-> [p \in Props |-> 0], wrote |-> FALSE,
   flushedAt |-> 0, flushes |-> [p \in Props |-> 0],
   changes |-> [p \in Props |-> 0], last |-> [p \in Props |-> <<>>]]
CycleAtRest == cyc = [w \in Workers |-> NoCycle]

\* No event loop is followed job by job.
LoopAtRest == loop = [made |-> FALSE]

\* No lock call is followed step by step.
ParkAtRest == park = [made |-> FALSE]

\* No view is used for wait / notify calls of its own.
NotifyAtRest == waiters = [made |-> FALSE]

\* No BufferStruct is looked at on its own.
StructAtRest == struct = [made |-> FALSE]

\* Main has called ThreadX.init({workerId: 1, workerName: 'main'}) and
\* created its SharedObject, whose BufferStruct took the router's first id.
StaticAtRest ==
  /\ THREADX = [w \in Workers |-> IF w = MainWorker THEN <<1>> ELSE <<>>]
  /\ routers = <<UniqueIdAfter(NewThreadX(MainWorker, MainOptions))>>
  /\ staticLog = [n |-> 0, by |-> MainWorker, op |-> "init", out |-> "returns"]
  /\ issued = {[router |-> 1, k |-> 1,
                id |-> UniqueIdReturned(NewThreadX(MainWorker, MainOptions))]}
  /\ lastStruct = <<[router |-> 1, k |-> 1,
                     id |-> Float64(UniqueIdReturned(NewThreadX(MainWorker, MainOptions)))]>>

\* The worker is registered with main, no closeWorkerAsync call has been made.
CloseAtRest ==
  /\ registered = TRUE
  /\ closeState = "none"
  /\ closeCall = <<>>
  /\ closeTimer = "none"
  /\ terminated = FALSE
  /\ closed = FALSE

\* The main worker's user code has created the SharedObject (instance 1 of
\* worker 1); it is shared with nobody and nobody has destroyed anything.
LifeAtRest ==
  /\ soLife = [w \in Workers |-> [i \in Insts |->
                 IF w = MainWorker /\ i = 1 THEN "live" ELSE "none"]]
  /\ mapInst = [w \in Workers |-> <<>>]
  /\ soData = [w \in Workers |-> {}]
  /\ destroyCause = [w \in Workers |-> [i \in Insts |-> "none"]]
  /\ beforeDestroy = [w \in Workers |-> [i \in Insts |-> 0]]
  /\ onDestroyCalls = [w \in Workers |-> [i \in Insts |-> 0]]
  /\ afterDestroy = [w \in Workers |-> [i \in Insts |-> 0]]
  /\ userOps = <<>>
  /\ shareHist = <<>>

\* new SharedArrayBuffer(..): zero-filled.
FreshBuffer ==
  /\ notifyWord = 0
  /\ dirty = {}
  /\ propVal = [p \in Props |-> 0]

InitLock ==
  /\ FreshBuffer
  /\ RouterAtRest
  /\ LifeAtRest
  /\ CloseAtRest
  /\ StaticAtRest
  /\ CodecAtRest
  /\ StructAtRest
  /\ NotifyAtRest
  /\ CycleAtRest
  /\ LoopAtRest
  /\ ParkAtRest
  /\ NoSharedObjects
  /\ lockWord = 0
  /\ lockId \in [Workers -> LockIds]
  /\ lkParked = [w \in Workers |-> 0]
  /\ lkWoken = [w \in Workers |-> 0]
  /\ lkMode = [w \in Workers |-> "async"]
  /\ lkCb = [w \in Workers |-> "returns"]
  /\ hold = [w \in Workers |-> "none"]
  /\ outcome = [w \in Workers |-> "none"]

NextLock ==
  \E w \in Workers :
    \/ \E mode \in {"sync", "async"}, cb \in {"returns", "throws"} :
         CallLock(w, mode, cb)
    \/ RetryAcquire(w)
    \/ CallbackEnds(w)
    \/ ReleaseNotify(w)

SpecLock == InitLock /\ [][NextLock]_vars

(***************************************************************************)
(* BufferStruct: property setter, dirty bits, notify / waitAsync           *)
(***************************************************************************)
\* structProp setter (type 'number'): the dirty bits after struct[p] = v.
StructSetDirty(d, pv, p, v) == IF v # pv[p] THEN d \cup {p} ELSE d
\* structProp setter: the payloads after struct[p] = v.
StructSetValue(pv, p, v) == IF v # pv[p] THEN [pv EXCEPT ![p] = v] ELSE pv

\* BufferStruct.isDirty(): any dirty bit set.
IsDirty(d) == d # {}
\* BufferStruct.isDirty(propIndex)
IsDirtyProp(d, p) == p \in d

\* Atomics.notify(int32array, NOTIFY_INT32_INDEX): every handle parked on the
\* notify word resolves 'ok'.
NotifyWake(wp) == [v \in Workers |-> IF wp[v] = "parked" THEN "ok" ELSE wp[v]]

\* Atomics.waitAsync(int32array, NOTIFY_INT32_INDEX, expected): parks when the
\* word equals expected, else resolves 'not-equal' at once.
WaitAsyncResult(word, expected) == IF word = expected THEN "parked" ELSE "ne"

(***************************************************************************)
(* SharedObject                                                            *)
(***************************************************************************)
\* The accessor the constructor defines: set p(value) { curProps[p] = value;
\* mutations[p] = true; queueMutations() }.
SetPropWriteThrough(w, p, v) ==
  /\ soState[w] = "live"
  /\ hold[w] = "none" /\ epc[w] = "idle"
  /\ nWrites[w] + nWrites[Peer(w)] < MaxWrites
  /\ lkParked[w] + lkWoken[w] < MaxPend
  /\ curProps' = [curProps EXCEPT ![w][p] = v]
  /\ mutations' = [mutations EXCEPT ![w] = @ \cup {p}]
  /\ mutationsQueued' = [mutationsQueued EXCEPT ![w] = TRUE]
  /\ nWrites' = [nWrites EXCEPT ![w] = @ + 1]
  /\ lastWrite' = IF soState[Peer(w)] # "absent"
                  THEN [lastWrite EXCEPT ![w][p] = <<v>>] ELSE lastWrite
  /\ dirty' = StructSetDirty(dirty, propVal, p, v)
  /\ propVal' = StructSetValue(propVal, p, v)
  /\ UNCHANGED <<notifyWord, lockVars, soState, waitPromise, initialized, epc,
                 eTodo, eIdx, eExpected, lastChange, changeCalls>>
  /\ UNCHANGED <<rtVars, lifeVars, auxVars>>

SetProp(w, p, v) ==
  /\ soState[w] = "live"
  /\ hold[w] = "none" /\ epc[w] = "idle"
  /\ nWrites[w] + nWrites[Peer(w)] < MaxWrites
  /\ lkParked[w] + lkWoken[w] < MaxPend
  /\ curProps' = [curProps EXCEPT ![w][p] = v]
  /\ mutations' = [mutations EXCEPT ![w] = @ \cup {p}]
  /\ mutationsQueued' = [mutationsQueued EXCEPT ![w] = TRUE]
  /\ nWrites' = [nWrites EXCEPT ![w] = @ + 1]
  /\ lastWrite' = IF soState[Peer(w)] # "absent"
                  THEN [lastWrite EXCEPT ![w][p] = <<v>>] ELSE lastWrite
  /\ UNCHANGED <<bufVars, lockVars, soState, waitPromise, initialized, epc,
                 eTodo, eIdx, eExpected, lastChange, changeCalls>>
  /\ UNCHANGED <<rtVars, lifeVars, auxVars>>

\* One synchronous turn of the synchronize test: obj.numProp1 = v;
\* obj.numProp2 = v (two setter calls, one queued microtask).
SetPair(w, v) ==
  /\ soState[w] = "live"
  /\ hold[w] = "none" /\ epc[w] = "idle"
  /\ nWrites[w] + nWrites[Peer(w)] < MaxWrites
  /\ lkParked[w] + lkWoken[w] < MaxPend
  /\ curProps' = [curProps EXCEPT ![w] = [p \in Props |-> v]]
  /\ mutations' = [mutations EXCEPT ![w] = Props]
  /\ mutationsQueued' = [mutationsQueued EXCEPT ![w] = TRUE]
  /\ nWrites' = [nWrites EXCEPT ![w] = @ + 1]
  /\ lastWrite' = IF soState[Peer(w)] # "absent"
                  THEN [lastWrite EXCEPT ![w] = [p \in Props |-> <<v>>]]
                  ELSE lastWrite
  /\ UNCHANGED <<bufVars, lockVars, soState, waitPromise, initialized, epc,
                 eTodo, eIdx, eExpected, lastChange, changeCalls>>
  /\ UNCHANGED <<rtVars, lifeVars, auxVars>>

\* The microtask queueMutations() queued: mutationsQueued = false, then
\* mutationMicrotask(): lockAsync(() => _executeMutations()).
MutationMicrotask(w) ==
  /\ mutationsQueued[w]
  /\ hold[w] = "none" /\ epc[w] = "idle"
  /\ mutationsQueued' = [mutationsQueued EXCEPT ![w] = FALSE]
  /\ lkMode' = [lkMode EXCEPT ![w] = "async"]
  /\ lkCb' = [lkCb EXCEPT ![w] = "exec"]
  /\ TryAcquire(w, TRUE)
  /\ UNCHANGED <<bufVars, lockId, outcome, soState, curProps, mutations,
                 waitPromise, initialized, eTodo, eIdx, eExpected, lastChange,
                 changeCalls, nWrites, lastWrite>>
  /\ UNCHANGED <<rtVars, lifeVars, auxVars>>

\* The then() callback of the waitAsync promise, for the latest handle:
\* assertTruthy(result === 'ok'); waitPromise = null; mutationMicrotask().
WaitResolved(w) ==
  /\ ThreadFree(w)
  /\ waitPromise[w] \in {"ok", "ne"}
  /\ IF waitPromise[w] = "ok"
       THEN /\ lkParked[w] + lkWoken[w] < MaxPend
            /\ waitPromise' = [waitPromise EXCEPT ![w] = "null"]
            /\ lkMode' = [lkMode EXCEPT ![w] = "async"]
            /\ lkCb' = [lkCb EXCEPT ![w] = "exec"]
            /\ TryAcquire(w, TRUE)
       ELSE \* the assertion throws: the handle stays, nothing follows it
            /\ waitPromise' = [waitPromise EXCEPT ![w] = "dead"]
            /\ UNCHANGED <<lockWord, lkParked, lkWoken, lkMode, lkCb, hold, epc>>
  /\ UNCHANGED <<bufVars, lockId, outcome, soState, curProps, mutations,
                 mutationsQueued, initialized, eTodo, eIdx, eExpected,
                 lastChange, changeCalls, nWrites, lastWrite>>
  /\ UNCHANGED <<rtVars, lifeVars, auxVars>>

\* _executeMutations: if (notifyValue !== workerId && isDirty()) ...
ShouldProcessDirty(w, nw, d) == nw # w /\ IsDirty(d)

\* const { mutations } = this; this.mutations = {};
ExecCheck(w) ==
  /\ epc[w] = "check"
  /\ IF ShouldProcessDirty(w, notifyWord, dirty)
       THEN /\ epc' = [epc EXCEPT ![w] = "pd"]
            /\ eIdx' = [eIdx EXCEPT ![w] = 1]
            /\ UNCHANGED <<eTodo, mutations>>
       ELSE /\ epc' = [epc EXCEPT ![w] = "flush"]
            /\ eTodo' = [eTodo EXCEPT ![w] = mutations[w]]
            /\ mutations' = [mutations EXCEPT ![w] = {}]
            /\ UNCHANGED eIdx
  /\ cyc' = [cyc EXCEPT ![w].on = ShouldProcessDirty(w, notifyWord, dirty),
                         ![w].dirty = dirty, ![w].buf = propVal,
                         ![w].wrote = FALSE]
  /\ UNCHANGED <<bufVars, lockVars, soState, curProps, mutationsQueued,
                 waitPromise, initialized, eExpected, lastChange, changeCalls,
                 nWrites, lastWrite>>
  /\ UNCHANGED <<rtVars, lifeVars, closeVars, staticVars, loop, park, codec, struct, waiters>>

\* processDirtyProperties: one iteration of propDefs.forEach.
ProcessDirtyProp(w) ==
  LET p == eIdx[w] IN
  /\ epc[w] = "pd"
  /\ IF IsDirtyProp(dirty, p)
       THEN /\ mutations' = [mutations EXCEPT ![w] = @ \ {p}]
            /\ curProps' = [curProps EXCEPT ![w][p] = propVal[p]]
            /\ IF initialized[w]
                 THEN /\ lastChange' = [lastChange EXCEPT ![w][p] = <<propVal[p]>>]
                      /\ changeCalls' = [changeCalls EXCEPT ![w] = @ + 1]
                      /\ cyc' = [cyc EXCEPT
                                   ![w].changes[p] = @ + 1,
                                   ![w].last[p] = <<[newValue |-> propVal[p],
                                                     oldValue |-> curProps[w][p]]>>]
                 ELSE UNCHANGED <<lastChange, changeCalls, cyc>>
       ELSE UNCHANGED <<mutations, curProps, lastChange, changeCalls, cyc>>
  /\ IF p < NumProps
       THEN /\ eIdx' = [eIdx EXCEPT ![w] = p + 1]
            /\ epc' = epc
       ELSE /\ eIdx' = [eIdx EXCEPT ![w] = 0]
            /\ epc' = [epc EXCEPT ![w] = "resetN"]
  /\ UNCHANGED <<bufVars, lockVars, soState, mutationsQueued, waitPromise,
                 initialized, eTodo, eExpected, nWrites, lastWrite>>
  /\ UNCHANGED <<rtVars, lifeVars, closeVars, staticVars, loop, park, codec, struct, waiters>>

\* resetDirty: int32array[NOTIFY_INT32_INDEX] = 0
ResetDirtyNotify(w) ==
  /\ epc[w] = "resetN"
  /\ notifyWord' = 0
  /\ epc' = [epc EXCEPT ![w] = "resetD"]
  /\ UNCHANGED <<dirty, propVal, lockVars, soState, curProps, mutations,
                 mutationsQueued, waitPromise, initialized, eTodo, eIdx,
                 eExpected, lastChange, changeCalls, nWrites, lastWrite>>
  /\ UNCHANGED <<rtVars, lifeVars, auxVars>>

\* resetDirty: int32array[DIRTY_INT32_INDEX] = 0 (and the second word); then
\* _executeMutations captures the mutations.
ResetDirtyBits(w) ==
  /\ epc[w] = "resetD"
  /\ dirty' = {}
  /\ epc' = [epc EXCEPT ![w] = "flush"]
  /\ eTodo' = [eTodo EXCEPT ![w] = mutations[w]]
  /\ mutations' = [mutations EXCEPT ![w] = {}]
  /\ UNCHANGED <<notifyWord, propVal, lockVars, soState, curProps,
                 mutationsQueued, waitPromise, initialized, eIdx, eExpected,
                 lastChange, changeCalls, nWrites, lastWrite>>
  /\ UNCHANGED <<rtVars, lifeVars, auxVars>>

\* The writes to the buffer made so far by the flush loops of all cycles.
FlushCount ==
  IF cyc[1].flushedAt > cyc[2].flushedAt THEN cyc[1].flushedAt ELSE cyc[2].flushedAt

\* for (const key in mutations) sharedObjectStruct[key] = curProps[key]
FlushProp(w) ==
  /\ epc[w] = "flush"
  /\ \E key \in eTodo[w] :
       /\ dirty' = StructSetDirty(dirty, propVal, key, curProps[w][key])
       /\ propVal' = StructSetValue(propVal, key, curProps[w][key])
       /\ eTodo' = [eTodo EXCEPT ![w] = @ \ {key}]
       /\ cyc' = IF curProps[w][key] # propVal[key]
                 THEN [cyc EXCEPT ![w].wrote = TRUE,
                                  ![w].flushedAt = FlushCount + 1,
                                  ![w].flushes[key] = @ + 1]
                 ELSE cyc
  /\ UNCHANGED <<notifyWord, lockVars, soState, curProps, mutations,
                 mutationsQueued, waitPromise, initialized, epc, eIdx,
                 eExpected, lastChange, changeCalls, nWrites, lastWrite>>
  /\ UNCHANGED <<rtVars, lifeVars, closeVars, staticVars, loop, park, codec, struct, waiters>>

\* waitPromise = null; expectedNotifyValue = notifyValue; if (isDirty()) ...
ExecReadNotify(w) ==
  /\ epc[w] = "flush"
  /\ eTodo[w] = {}
  /\ waitPromise' = [waitPromise EXCEPT ![w] = "null"]
  /\ eExpected' = [eExpected EXCEPT ![w] = notifyWord]
  /\ epc' = [epc EXCEPT ![w] = IF IsDirty(dirty) THEN "notify" ELSE "wait"]
  /\ UNCHANGED <<bufVars, lockVars, soState, curProps, mutations,
                 mutationsQueued, initialized, eTodo, eIdx, lastChange,
                 changeCalls, nWrites, lastWrite>>
  /\ UNCHANGED <<rtVars, lifeVars, auxVars>>

\* sharedObjectStruct.notify(workerId); expectedNotifyValue = workerId
ExecNotify(w) ==
  /\ epc[w] = "notify"
  /\ notifyWord' = w
  /\ waitPromise' = NotifyWake(waitPromise)
  /\ eExpected' = [eExpected EXCEPT ![w] = w]
  /\ epc' = [epc EXCEPT ![w] = "wait"]
  /\ UNCHANGED <<dirty, propVal, lockVars, soState, curProps, mutations,
                 mutationsQueued, initialized, eTodo, eIdx, lastChange,
                 changeCalls, nWrites, lastWrite>>
  /\ UNCHANGED <<rtVars, lifeVars, auxVars>>

\* this.waitPromise = sharedObjectStruct.waitAsync(expectedNotifyValue).then(..)
ExecWait(w) ==
  /\ epc[w] = "wait"
  /\ waitPromise' = [waitPromise EXCEPT ![w] =
                       WaitAsyncResult(notifyWord, eExpected[w])]
  /\ epc' = [epc EXCEPT ![w] = "done"]
  /\ UNCHANGED <<bufVars, lockVars, soState, curProps, mutations,
                 mutationsQueued, initialized, eTodo, eIdx, eExpected,
                 lastChange, changeCalls, nWrites, lastWrite>>
  /\ UNCHANGED <<rtVars, lifeVars, auxVars>>

\* ThreadX.onMessage (shareObjects): sharedObjectFactory(buffer) is called on
\* the receiving worker: new TestSharedObject(new TestBufferStruct(buffer)).
ShareConstruct(w) ==
  /\ soState[w] = "absent"
  /\ soState[Peer(w)] = "live"
  /\ ThreadFree(w)
  /\ soState' = [soState EXCEPT ![w] = "ctor"]
  /\ epc' = [epc EXCEPT ![w] = "read"]
  /\ eIdx' = [eIdx EXCEPT ![w] = 1]
  /\ UNCHANGED <<bufVars, lockVars, curProps, mutations, mutationsQueued,
                 waitPromise, initialized, eTodo, eExpected, lastChange,
                 changeCalls, nWrites, lastWrite>>
  /\ UNCHANGED <<rtVars, lifeVars, auxVars>>

\* TestSharedObject constructor: curProps = { numProp1: struct.numProp1, .. };
\* then the SharedObject constructor: mutations = {}; _executeMutations().
CtorReadProp(w) ==
  LET p == eIdx[w] IN
  /\ epc[w] = "read"
  /\ curProps' = [curProps EXCEPT ![w][p] = propVal[p]]
  /\ IF p < NumProps
       THEN /\ eIdx' = [eIdx EXCEPT ![w] = p + 1]
            /\ UNCHANGED <<epc, mutations>>
       ELSE /\ eIdx' = [eIdx EXCEPT ![w] = 0]
            /\ mutations' = [mutations EXCEPT ![w] = {}]
            /\ epc' = [epc EXCEPT ![w] = "check"]
  /\ UNCHANGED <<bufVars, lockVars, soState, mutationsQueued, waitPromise,
                 initialized, eTodo, eExpected, lastChange, changeCalls,
                 nWrites, lastWrite>>
  /\ UNCHANGED <<rtVars, lifeVars, auxVars>>

\* The SharedObject constructor returns: this.initialized = true.
CtorEnds(w) ==
  /\ soState[w] = "ctor"
  /\ epc[w] = "done"
  /\ initialized' = [initialized EXCEPT ![w] = TRUE]
  /\ soState' = [soState EXCEPT ![w] = "live"]
  /\ epc' = [epc EXCEPT ![w] = "idle"]
  /\ UNCHANGED <<bufVars, lockVars, curProps, mutations, mutationsQueued,
                 waitPromise, eTodo, eIdx, eExpected, lastChange, changeCalls,
                 nWrites, lastWrite>>
  /\ UNCHANGED <<rtVars, lifeVars, auxVars>>

\* Worker 1 has built new TestSharedObject(new TestBufferStruct()): its
\* constructor ran _executeMutations on the fresh buffer and waits on 0.
InitSync ==
  /\ FreshBuffer
  /\ RouterAtRest
  /\ LifeAtRest
  /\ CloseAtRest
  /\ StaticAtRest
  /\ CodecAtRest
  /\ StructAtRest
  /\ NotifyAtRest
  /\ CycleAtRest
  /\ LoopAtRest
  /\ ParkAtRest
  /\ lockWord = 0
  /\ lockId \in [Workers -> LockIds]
  /\ lkParked = [w \in Workers |-> 0]
  /\ lkWoken = [w \in Workers |-> 0]
  /\ lkMode = [w \in Workers |-> "async"]
  /\ lkCb = [w \in Workers |-> "exec"]
  /\ hold = [w \in Workers |-> "none"]
  /\ outcome = [w \in Workers |-> "none"]
  /\ soState = [w \in Workers |-> IF w = MainWorker THEN "live" ELSE "absent"]
  /\ curProps = [w \in Workers |-> [p \in Props |-> 0]]
  /\ mutations = [w \in Workers |-> {}]
  /\ mutationsQueued = [w \in Workers |-> FALSE]
  /\ waitPromise = [w \in Workers |-> IF w = MainWorker THEN "parked" ELSE "null"]
  /\ initialized = [w \in Workers |-> w = MainWorker]
  /\ epc = [w \in Workers |-> "idle"]
  /\ eTodo = [w \in Workers |-> {}]
  /\ eIdx = [w \in Workers |-> 0]
  /\ eExpected = [w \in Workers |-> 0]
  /\ lastChange = [w \in Workers |-> [p \in Props |-> <<>>]]
  /\ changeCalls = [w \in Workers |-> 0]
  /\ nWrites = [w \in Workers |-> 0]
  /\ lastWrite = [w \in Workers |-> [p \in Props |-> <<>>]]

NextSync ==
  \E w \in Workers :
    \/ \E p \in Props, v \in Values : SetProp(w, p, v)
    \/ MutationMicrotask(w)
    \/ WaitResolved(w)
    \/ RetryAcquire(w)
    \/ ExecCheck(w)
    \/ ProcessDirtyProp(w)
    \/ ResetDirtyNotify(w)
    \/ ResetDirtyBits(w)
    \/ FlushProp(w)
    \/ ExecReadNotify(w)
    \/ ExecNotify(w)
    \/ ExecWait(w)
    \/ CallbackEnds(w)
    \/ ReleaseNotify(w)
    \/ ShareConstruct(w)
    \/ CtorReadProp(w)
    \/ CtorEnds(w)

SpecSync == InitSync /\ [][NextSync]_vars

\* The synchronize test: both workers only assign numProp1 and numProp2 the
\* same value within one turn.
NextPair ==
  \E w \in Workers :
    \/ \E v \in Values : SetPair(w, v)
    \/ MutationMicrotask(w)
    \/ WaitResolved(w)
    \/ RetryAcquire(w)
    \/ ExecCheck(w)
    \/ ProcessDirtyProp(w)
    \/ ResetDirtyNotify(w)
    \/ ResetDirtyBits(w)
    \/ FlushProp(w)
    \/ ExecReadNotify(w)
    \/ ExecNotify(w)
    \/ ExecWait(w)
    \/ CallbackEnds(w)
    \/ ReleaseNotify(w)
    \/ ShareConstruct(w)
    \/ CtorReadProp(w)
    \/ CtorEnds(w)

SpecPair == InitSync /\ [][NextPair]_vars

(***************************************************************************)
(* ThreadX: the worker router                                              *)
(***************************************************************************)
\* A message on the transport.  call: the number of the sendMessage /
\* sendMessageAsync call that produced it (0: none); id: <<__asyncMsgId>> or
\* <<asyncMsgId>> (<<>>: undefined); err: the error flag of a response; ev:
\* <<event>> of a sharedObjectEmit.
Msg(type, call, id, err, ev) ==
  [type |-> type, call |-> call, id |-> id, err |-> err, ev |-> ev]

\* worker.postMessage(..) for each of msgs, by worker w; w has dispatched the
\* head of its own channel when consume is TRUE.
PostMessages(w, msgs, consume) ==
  /\ chan' = [v \in Workers |->
                IF v = w THEN (IF consume THEN Tail(chan[w]) ELSE chan[w])
                ELSE chan[v] \o msgs]
  /\ postLog' = [postLog EXCEPT ![w] = @ \o msgs]

\* A send that does not wait for the ready promise.
ReadyNotAwaited(w) == TRUE
\* sendMessageAsync: await this.workerReadyPromises.get(workerName)!.promise
ReadyAwaited(w) == ready[w]

\* The continuations of the ready promise have all run.
MicrotasksDone(w) == ~(ReadyAwaited(w) /\ sendQ[w] # <<>>)

\* A counter that is not advanced.
NextAsyncMsgIdStuck(n) == n
\* const asyncMsgId = this.nextAsyncMsgId++ : the counter afterwards.
NextAsyncMsgIdAfter(n) == n + 1

\* pendingAsyncMsgs.set(asyncMsgId, {resolve, reject})
PendingSet(pending, id, call, type) ==
  {x \in pending : x[1] # id} \cup {<<id, call, type>>}

\* new ThreadX(options) in the dedicated worker: registerWorker('parent', self)
\* (always ready) and sendMessage('parent', {threadXMessageType: 'ready'}).
\* The worker's thread still runs tasks: a dedicated worker stops after
\* close() in its global scope or terminate() by its owner.
Alive(w) == w = MainWorker \/ (~closed /\ ~terminated)

WorkerInit(w) ==
  /\ ~rtUp[w]
  /\ w # MainWorker
  /\ Alive(w)
  /\ rtUp' = [rtUp EXCEPT ![w] = TRUE]
  /\ ready' = [ready EXCEPT ![w] = TRUE]
  /\ nCalls' = nCalls + 1
  /\ sendQ' = [sendQ EXCEPT ![w] =
                 Append(@, [call |-> nCalls + 1, type |-> "ready", async |-> FALSE])]
  /\ UNCHANGED <<chan, nextAsyncMsgId, pendingAsyncMsgs, postLog, settleLog,
                 respSeen, known, shareConfirmed, emitQueue, suppress,
                 delivered, evLog>>
  /\ routers' = Append(routers, NewThreadX(w, WorkerOptions))
  /\ THREADX' = [THREADX EXCEPT ![w] = <<Len(routers) + 1>>]
  /\ UNCHANGED <<staticLog, issued, lastStruct>>
  /\ UNCHANGED <<bufVars, lockVars, soVars, lifeVars, closeVars, extVars>>

\* User code calls sendMessage(peer, msg) (async = FALSE: skipResponseWait)
\* or sendMessageAsync(peer, msg): the call waits for the ready promise.
SendUser(w, async) ==
  /\ rtUp[w]
  /\ Alive(w)
  /\ w = MainWorker => registered
  /\ Len(SelectSeq(postLog[1] \o postLog[2], LAMBDA m : m.type = "user"))
       + Len(SelectSeq(sendQ[1] \o sendQ[2], LAMBDA c : c.type = "user")) < MaxSends
  /\ nCalls' = nCalls + 1
  /\ sendQ' = [sendQ EXCEPT ![w] =
                 Append(@, [call |-> nCalls + 1, type |-> "user", async |-> async])]
  /\ UNCHANGED <<rtUp, ready, chan, nextAsyncMsgId, pendingAsyncMsgs, postLog,
                 settleLog, respSeen, known, shareConfirmed, emitQueue,
                 suppress, delivered, evLog>>
  /\ UNCHANGED <<bufVars, lockVars, soVars, lifeVars, auxVars>>

\* shareObjects(peer, [obj]) on the main router: register the object unless
\* the id is already in the map (then only a warning), then
\* sendMessageAsync({shareObjects, buffers: [extractBuffer(obj)]}) for every
\* object passed.  extractBuffer throws when the object is being or has been
\* destroyed: the call rejects after the registration, and nothing is sent.
ShareObjectsCall(w) ==
  /\ rtUp[w]
  /\ w = MainWorker
  /\ IF known[w]
       THEN UNCHANGED <<known, shareConfirmed, emitQueue, mapInst, soData>>
       ELSE /\ known' = [known EXCEPT ![w] = TRUE]
            /\ mapInst' = [mapInst EXCEPT ![w] = <<1>>]
            /\ soData' = [soData EXCEPT ![w] = @ \cup {1}]
            /\ shareConfirmed' = [shareConfirmed EXCEPT ![w] = FALSE]
            /\ emitQueue' = [emitQueue EXCEPT ![w] = <<>>]
  /\ IF soLife[w][1] = "live"
       THEN /\ nCalls' = nCalls + 1
            /\ sendQ' = [sendQ EXCEPT ![w] =
                           Append(@, [call |-> nCalls + 1, type |-> "shareObjects",
                                      async |-> TRUE])]
       ELSE UNCHANGED <<nCalls, sendQ>>
  /\ shareHist' = Append(shareHist, [seq |-> nCalls, ops |-> Len(userOps),
                                      known |-> known[w],
                                      sent |-> soLife[w][1] = "live"])
  /\ UNCHANGED <<rtUp, ready, chan, nextAsyncMsgId, pendingAsyncMsgs, postLog,
                 settleLog, respSeen, suppress, delivered, evLog>>
  /\ UNCHANGED <<soLife, destroyCause, beforeDestroy, onDestroyCalls,
                 afterDestroy, userOps>>
  /\ UNCHANGED <<bufVars, lockVars, soVars, auxVars>>

\* The shareObjects messages worker w has posted or is about to post.
ShareCalls(w) ==
  Len(SelectSeq(postLog[w], LAMBDA m : m.type = "shareObjects"))
    + Len(SelectSeq(sendQ[w], LAMBDA c : c.type = "shareObjects"))

\* shareObjects() in the router specification.
ShareObjects(w) ==
  /\ ShareCalls(w) < MaxShares
  /\ ShareObjectsCall(w)

\* sendMessageAsync after the await: post at once when skipResponseWait,
\* else take the next async message id, register the promise and post.
PostPending(w) ==
  /\ ReadyAwaited(w)
  /\ Alive(w)
  /\ sendQ[w] # <<>>
  /\ LET c == Head(sendQ[w])
         asyncMsgId == nextAsyncMsgId[w]
     IN /\ sendQ' = [sendQ EXCEPT ![w] = Tail(@)]
        /\ IF c.async
             THEN /\ nextAsyncMsgId' = [nextAsyncMsgId EXCEPT ![w] =
                                          NextAsyncMsgIdAfter(@)]
                  /\ pendingAsyncMsgs' = [pendingAsyncMsgs EXCEPT ![w] =
                                            PendingSet(@, asyncMsgId, c.call, c.type)]
                  /\ PostMessages(w, <<Msg(c.type, c.call, <<asyncMsgId>>, FALSE, <<>>)>>, FALSE)
             ELSE /\ UNCHANGED <<nextAsyncMsgId, pendingAsyncMsgs>>
                  /\ PostMessages(w, <<Msg(c.type, c.call, <<>>, FALSE, <<>>)>>, FALSE)
  /\ UNCHANGED <<rtUp, ready, nCalls, settleLog, respSeen, known,
                 shareConfirmed, emitQueue, suppress, delivered, evLog>>
  /\ UNCHANGED <<bufVars, lockVars, soVars, lifeVars, auxVars>>

\* __sharedObjectEmit without the suppressSharedObjectEmit check.
EmitFateUnsuppressed(suppressed, hasData, confirmed) ==
  IF ~hasData THEN "drop"
  ELSE IF ~confirmed THEN "queue"
  ELSE "post"
\* __sharedObjectEmit: what becomes of the event.
EmitFate(suppressed, hasData, confirmed) ==
  IF suppressed THEN "drop"
  ELSE IF ~hasData THEN "drop"
  ELSE IF ~confirmed THEN "queue"
  ELSE "post"

\* The sharedObjectEmit message of event e.
EmitMsg(e) == Msg("sharedObjectEmit", 0, <<>>, FALSE, <<e>>)

\* The messages __sharedObjectEmit posts for event e.
EmitPosts(fate, e) == IF fate = "post" THEN <<EmitMsg(e)>> ELSE <<>>

\* The share state of the object on worker w, as __sharedObjectEmit sees it.
Phase(w) ==
  IF ~known[w] THEN "unshared"
  ELSE IF ~shareConfirmed[w] THEN "pending" ELSE "confirmed"

\* The listeners registered with on() for the event, in registration order.
EventListeners == <<1, 2>>
\* this.workers.get(soData.workerName) of the router of w: the worker main
\* registered, until closeWorkerAsync deletes it; 'parent' in a worker.
WorkerFound(w) == w # MainWorker \/ registered
\* emit() calls __sharedObjectEmit first: when that finds no worker to post
\* to, assertTruthy throws out of emit().
EmitOutcome(w, fate) ==
  IF fate = "post" /\ ~WorkerFound(w) THEN "throws" ELSE fate
\* [...listeners].forEach(listener => listener(this, data)), reached when
\* __sharedObjectEmit has returned: the listeners invoked, in order.
Invoked(fate) == IF fate = "throws" THEN <<>> ELSE EventListeners

\* User code (outside any dispatch) calls obj.emit(event, data): the router is
\* asked to forward it, then the local listeners run.
Emit(w) ==
  /\ rtUp[w]
  /\ Alive(w)
  /\ w = MainWorker \/ known[w]       \* the worker holds an instance
  /\ MicrotasksDone(w)
  /\ Len(evLog) < MaxEmits
  /\ LET e == Len(evLog) + 1
         fate == EmitOutcome(w, EmitFate(suppress[w], known[w], shareConfirmed[w]))
     IN /\ evLog' = Append(evLog, [by |-> w, fate |-> fate, phase |-> Phase(w),
                                   heard |-> Invoked(fate)])
        /\ emitQueue' = IF fate = "queue"
                          THEN [emitQueue EXCEPT ![w] = Append(@, e)]
                          ELSE emitQueue
        /\ PostMessages(w, EmitPosts(fate, e), FALSE)
  /\ UNCHANGED <<rtUp, ready, sendQ, nextAsyncMsgId, pendingAsyncMsgs, nCalls,
                 settleLog, respSeen, known, shareConfirmed, suppress,
                 delivered>>
  /\ UNCHANGED <<bufVars, lockVars, soVars, lifeVars, auxVars>>

\* A listener that answers every settled onMessage as resolved.
ResponseUnflagged(m, rejected) ==
  IF m.id # <<>> THEN <<Msg("response", 0, m.id, FALSE, <<>>)>> ELSE <<>>
\* listenForWorkerMessages: the response posted once onMessage has settled,
\* when the message carried an __asyncMsgId.
ResponseFor(m, rejected) ==
  IF m.id # <<>> THEN <<Msg("response", 0, m.id, rejected, <<>>)>> ELSE <<>>

\* onMessage: 'ready' resolves the source worker's ready promise.
OnReady(w, m) ==
  /\ ready' = [ready EXCEPT ![w] = TRUE]
  /\ PostMessages(w, ResponseFor(m, FALSE), TRUE)
  /\ UNCHANGED <<rtUp, sendQ, nextAsyncMsgId, pendingAsyncMsgs, nCalls,
                 settleLog, respSeen, known, shareConfirmed, emitQueue,
                 suppress, delivered, evLog>>
  /\ UNCHANGED <<curProps, lifeVars, closeVars>>

\* onMessage: any other message goes to the user's onMessage, which resolves
\* (ok) or rejects.
OnUserMessage(w, m, ok) ==
  /\ PostMessages(w, ResponseFor(m, ~ok), TRUE)
  /\ UNCHANGED <<rtUp, ready, sendQ, nextAsyncMsgId, pendingAsyncMsgs, nCalls,
                 settleLog, respSeen, known, shareConfirmed, emitQueue,
                 suppress, delivered, evLog>>
  /\ UNCHANGED <<curProps, lifeVars, closeVars>>

\* The instances worker w has constructed so far.
Built(w) == Cardinality({i \in Insts : soLife[w][i] # "none"})

\* TestSharedObject constructor: curProps are read from the BufferStruct.
CtorReadsStruct(w, pv) == pv

\* onMessage: 'shareObjects' builds a new object over the buffer with the
\* factory, puts it in the map under the buffer's id (replacing what was
\* there), registers it as confirmed and calls onObjectShared, which may emit
\* on the new object.
OnShareObjects(w, m, hookEmits) ==
  LET fate == EmitFate(suppress[w], TRUE, TRUE)
      e == Len(evLog) + 1
      emits == hookEmits /\ Len(evLog) < MaxEmits
      i == Built(w) + 1
  IN
  /\ soLife' = [soLife EXCEPT ![w][i] = "live"]
  /\ curProps' = [curProps EXCEPT ![w] = CtorReadsStruct(w, propVal)]
  /\ mapInst' = [mapInst EXCEPT ![w] = <<i>>]
  /\ soData' = [soData EXCEPT ![w] = @ \cup {i}]
  /\ known' = [known EXCEPT ![w] = TRUE]
  /\ shareConfirmed' = [shareConfirmed EXCEPT ![w] = TRUE]
  /\ emitQueue' = [emitQueue EXCEPT ![w] = <<>>]
  /\ evLog' = IF emits
                THEN Append(evLog, [by |-> w, fate |-> fate, phase |-> "confirmed",
                                    heard |-> Invoked(fate)])
                ELSE evLog
  /\ PostMessages(w, (IF emits THEN EmitPosts(fate, e) ELSE <<>>)
                       \o ResponseFor(m, FALSE), TRUE)
  /\ UNCHANGED <<rtUp, ready, sendQ, nextAsyncMsgId, pendingAsyncMsgs, nCalls,
                 settleLog, respSeen, suppress, delivered>>
  /\ UNCHANGED <<destroyCause, beforeDestroy, onDestroyCalls, afterDestroy,
                 userOps, shareHist, closeVars>>

\* onMessage: 'shareObjects' when sharedObjectFactory is not set or returns
\* nothing for the buffer: the forEach callback throws before anything is
\* registered; the listener's catch posts the response.
OnShareObjectsThrows(w, m) ==
  /\ PostMessages(w, ResponseFor(m, TRUE), TRUE)
  /\ UNCHANGED <<rtUp, ready, sendQ, nextAsyncMsgId, pendingAsyncMsgs, nCalls,
                 settleLog, respSeen, known, shareConfirmed, emitQueue,
                 suppress, delivered, evLog>>
  /\ UNCHANGED <<curProps, lifeVars, closeVars>>

\* onMessage: 'sharedObjectEmit' for a known object: suppressSharedObjectEmit
\* = true; sharedObject.emit(..); suppressSharedObjectEmit = false.  The
\* listener returns ("plain"), emits the event again on the object
\* ("reemit"), or throws ("throws": the statement after emit() is not reached).
OnSharedObjectEmit(w, m, listener) ==
  LET e == m.ev[1]
      \* emit() inside the dispatch asks __sharedObjectEmit with the flag set
      fate == EmitFate(TRUE, known[w], shareConfirmed[w])
  IN
  /\ UNCHANGED <<curProps, lifeVars, closeVars>>
  /\ IF ~known[w]
         THEN /\ listener = "plain"
              /\ PostMessages(w, <<>>, TRUE)
              /\ UNCHANGED <<rtUp, ready, sendQ, nextAsyncMsgId, pendingAsyncMsgs,
                             nCalls, settleLog, respSeen, known, shareConfirmed,
                             emitQueue, suppress, delivered, evLog>>
         ELSE /\ delivered' = [delivered EXCEPT ![w] =
                                Append(@, [ev |-> e, listener |-> listener])]
              /\ suppress' = [suppress EXCEPT ![w] = (listener = "throws")]
              /\ emitQueue' = IF listener = "reemit" /\ fate = "queue"
                                THEN [emitQueue EXCEPT ![w] = Append(@, e)]
                                ELSE emitQueue
              /\ PostMessages(w, IF listener = "reemit" THEN EmitPosts(fate, e)
                                 ELSE <<>>, TRUE)
              /\ UNCHANGED <<rtUp, ready, sendQ, nextAsyncMsgId, pendingAsyncMsgs,
                             nCalls, settleLog, respSeen, known, shareConfirmed,
                             evLog>>

\* shareObjects() after its await: shareConfirmed = true and every queued
\* event goes through __sharedObjectEmit again; emitQueue = null.
RECURSIVE DrainQueue(_, _)
DrainQueue(q, suppressed) ==
  IF q = <<>> THEN <<>>
  ELSE EmitPosts(EmitFate(suppressed, TRUE, TRUE), Head(q))
         \o DrainQueue(Tail(q), suppressed)

\* The race where the timer's promise resolves to true as well.
RaceResultTruthy(winner) == TRUE

\* onMessage: 'response' settles the promise registered under the id and
\* deletes the entry; an unknown id throws.  A resolved shareObjects request
\* continues in shareObjects().
\* Promise.race([timer -> false, sendMessageAsync(close) -> true]): the value
\* closeWorkerAsync awaits, by the promise that settled first.
RaceResult(winner) == winner = "response"

\* closeWorkerAsync after the await: workers.delete, workerReadyPromises
\* .delete; !result: warn, worker.terminate(), 'forced'; else 'graceful'.
CloseReturns(result) ==
  /\ registered' = FALSE
  /\ terminated' = (terminated \/ ~result)
  /\ closeState' = IF result THEN "graceful" ELSE "forced"

OnResponse(w, m) ==
  LET id == m.id[1]
      entries == {x \in pendingAsyncMsgs[w] : x[1] = id}
  IN
  /\ respSeen' = [respSeen EXCEPT ![w] = @ \cup {<<id, m.err>>}]
  /\ IF entries = {}
       THEN /\ PostMessages(w, <<>>, TRUE)
            /\ UNCHANGED <<pendingAsyncMsgs, settleLog, shareConfirmed, emitQueue>>
       ELSE LET x == CHOOSE y \in entries : TRUE
                \* const soData = this.sharedObjectData.get(sharedObject)
                confirms == x[3] = "shareObjects" /\ ~m.err /\ 1 \in soData[w]
            IN /\ pendingAsyncMsgs' = [pendingAsyncMsgs EXCEPT ![w] = @ \ entries]
               /\ settleLog' = [settleLog EXCEPT ![w] =
                    Append(@, <<x[2], id, IF m.err THEN "rejected" ELSE "resolved">>)]
               /\ IF confirms
                    THEN /\ shareConfirmed' = [shareConfirmed EXCEPT ![w] = TRUE]
                         /\ emitQueue' = [emitQueue EXCEPT ![w] = <<>>]
                         /\ PostMessages(w, DrainQueue(emitQueue[w], suppress[w]), TRUE)
                    ELSE /\ UNCHANGED <<shareConfirmed, emitQueue>>
                         /\ PostMessages(w, <<>>, TRUE)
  \* closeWorkerAsync: the close message's promise settles the Promise.race
  \* when the timer has not (the rest of the call runs in the same task).
  /\ IF /\ closeState = "racing"
        /\ \E x \in entries : x[3] = "close"
       THEN IF m.err
              THEN /\ closeState' = "rejected"
                   /\ UNCHANGED <<registered, terminated>>
              ELSE CloseReturns(RaceResult("response"))
       ELSE UNCHANGED <<registered, closeState, terminated>>
  /\ UNCHANGED <<rtUp, ready, sendQ, nextAsyncMsgId, nCalls, known, suppress,
                 delivered, evLog>>
  /\ UNCHANGED <<curProps, lifeVars, closeCall, closeTimer, closed>>

\* How often destroy() runs its body for one user-visible call: a
\* 'beforeDestroy' listener registered with once() that calls destroy() on the
\* object re-enters destroy() before this.destroying is set.
DestroyBodies(listener) == IF listener = "redestroy" THEN 2 ELSE 1

\* SharedObject.destroy() on instance i of worker w: nothing when the object
\* is being or has been destroyed; else emit('beforeDestroy', localOnly),
\* destroying = true, onDestroy(), queueMutations().
DestroyCall(w, i, cause, listener) ==
  IF soLife[w][i] # "live"
    THEN /\ listener = "plain"
         /\ UNCHANGED <<soLife, destroyCause, beforeDestroy, onDestroyCalls>>
    ELSE /\ soLife' = [soLife EXCEPT ![w][i] = "queued"]
         /\ destroyCause' = [destroyCause EXCEPT ![w][i] = cause]
         /\ beforeDestroy' = [beforeDestroy EXCEPT ![w][i] = @ + DestroyBodies(listener)]
         /\ onDestroyCalls' = [onDestroyCalls EXCEPT ![w][i] = @ + DestroyBodies(listener)]

\* forgetObjects([obj]) for instance i of worker w: when the id is in the map
\* and the instance has metadata, the id leaves the map, the metadata is
\* deleted and sendMessageAsync({forgetObjects, objectIds}) is called for the
\* peer; when the id is not in the map nothing happens (a warning unless
\* silent); when the instance has no metadata assertTruthy throws.
RouterForgets(w, i) == mapInst[w] # <<>> /\ i \in soData[w]
RouterForget(w, i) ==
  IF RouterForgets(w, i)
    THEN /\ mapInst' = [mapInst EXCEPT ![w] = <<>>]
         /\ known' = [known EXCEPT ![w] = FALSE]
         /\ soData' = [soData EXCEPT ![w] = @ \ {i}]
         /\ nCalls' = nCalls + 1
         /\ sendQ' = [sendQ EXCEPT ![w] =
                        Append(@, [call |-> nCalls + 1, type |-> "forgetObjects",
                                   async |-> TRUE])]
    ELSE UNCHANGED <<mapInst, known, soData, nCalls, sendQ>>

\* onMessage: 'forgetObjects': an id that is not in the map is ignored; else
\* onBeforeObjectForgotten, sharedObjects.delete(id), sharedObject.destroy().
OnForgetObjects(w, m, listener) ==
  /\ IF mapInst[w] = <<>>
       THEN /\ listener = "plain"
            /\ UNCHANGED <<mapInst, known, soLife, destroyCause, beforeDestroy,
                           onDestroyCalls>>
       ELSE /\ mapInst' = [mapInst EXCEPT ![w] = <<>>]
            /\ known' = [known EXCEPT ![w] = FALSE]
            /\ DestroyCall(w, mapInst[w][1], "forgetObjects", listener)
  /\ PostMessages(w, ResponseFor(m, FALSE), TRUE)
  /\ UNCHANGED <<rtUp, ready, sendQ, nextAsyncMsgId, pendingAsyncMsgs, nCalls,
                 settleLog, respSeen, shareConfirmed, emitQueue, suppress,
                 delivered, evLog>>
  /\ UNCHANGED <<curProps, soData, afterDestroy, userOps, shareHist, closeVars>>

\* onMessage: 'close': resolvedGlobal.close(); return true.  The listener
\* posts the response in the same task.
OnClose(w, m) ==
  /\ closed' = TRUE
  /\ PostMessages(w, ResponseFor(m, FALSE), TRUE)
  /\ UNCHANGED <<rtUp, ready, sendQ, nextAsyncMsgId, pendingAsyncMsgs, nCalls,
                 settleLog, respSeen, known, shareConfirmed, emitQueue,
                 suppress, delivered, evLog>>
  /\ UNCHANGED <<curProps, lifeVars, registered, closeState, closeCall,
                 closeTimer, terminated>>

\* No microtask of a destroy() call is still to run on worker w.
NoDestroyMicrotask(w) == \A i \in Insts : soLife[w][i] # "queued"

\* The 'message' event listener of listenForWorkerMessages: one message is
\* dispatched to onMessage.  hooks: what the onObjectShared hook may do (TRUE:
\* emit on the new object).
Dispatch(w, hooks) ==
  /\ rtUp[w]
  /\ Alive(w)
  /\ chan[w] # <<>>
  /\ MicrotasksDone(w)
  /\ NoDestroyMicrotask(w)
  /\ LET m == Head(chan[w]) IN
       \/ m.type = "ready" /\ OnReady(w, m)
       \/ m.type = "user" /\ \E ok \in BOOLEAN : OnUserMessage(w, m, ok)
       \/ m.type = "shareObjects" /\ \E hookEmits \in hooks :
                                       OnShareObjects(w, m, hookEmits)
       \/ m.type = "forgetObjects" /\ \E listener \in {"plain", "redestroy"} :
                                        OnForgetObjects(w, m, listener)
       \/ m.type = "sharedObjectEmit" /\ \E listener \in {"plain", "reemit", "throws"} :
                                           OnSharedObjectEmit(w, m, listener)
       \/ m.type = "close" /\ OnClose(w, m)
       \/ m.type = "response" /\ OnResponse(w, m)
  /\ UNCHANGED <<bufVars, lockVars, staticVars, extVars>>
  /\ UNCHANGED <<soState, mutations, mutationsQueued, waitPromise, initialized,
                 epc, eTodo, eIdx, eExpected, lastChange, changeCalls, nWrites,
                 lastWrite>>

\* A dispatch in the router specification.
Receive(w) == Dispatch(w, BOOLEAN)

\* A dispatch of a 'shareObjects' message by a router whose factory fails.
ReceiveThrows(w) ==
  /\ rtUp[w]
  /\ Alive(w)
  /\ chan[w] # <<>>
  /\ MicrotasksDone(w)
  /\ NoDestroyMicrotask(w)
  /\ Head(chan[w]).type = "shareObjects"
  /\ OnShareObjectsThrows(w, Head(chan[w]))
  /\ UNCHANGED <<bufVars, lockVars, staticVars, extVars>>
  /\ UNCHANGED <<soState, mutations, mutationsQueued, waitPromise, initialized,
                 epc, eTodo, eIdx, eExpected, lastChange, changeCalls, nWrites,
                 lastWrite>>

\* No BufferStruct view is locked and no SharedObject cycle runs.
InitRouter ==
  /\ RouterAtRest
  /\ LifeAtRest
  /\ CloseAtRest
  /\ StaticAtRest
  /\ CodecAtRest
  /\ StructAtRest
  /\ NotifyAtRest
  /\ CycleAtRest
  /\ LoopAtRest
  /\ ParkAtRest
  /\ FreshBuffer
  /\ NoSharedObjects
  /\ lockWord = 0
  /\ lockId = [w \in Workers |-> w]
  /\ lkParked = [w \in Workers |-> 0]
  /\ lkWoken = [w \in Workers |-> 0]
  /\ lkMode = [w \in Workers |-> "async"]
  /\ lkCb = [w \in Workers |-> "returns"]
  /\ hold = [w \in Workers |-> "none"]
  /\ outcome = [w \in Workers |-> "none"]

NextRouter ==
  \E w \in Workers :
    \/ WorkerInit(w)
    \/ \E async \in BOOLEAN : SendUser(w, async)
    \/ ShareObjects(w)
    \/ PostPending(w)
    \/ Emit(w)
    \/ Receive(w)
    \/ ReceiveThrows(w)

SpecRouter == InitRouter /\ [][NextRouter]_vars

\* Queued microtasks run and posted messages are dispatched.
SpecRouterFair ==
  /\ SpecRouter
  /\ \A w \in Workers : WF_vars(PostPending(w)) /\ WF_vars(Receive(w))
  /\ \A w \in Workers : WF_vars(WorkerInit(w))

(***************************************************************************)
(* The life of a shared SharedObject: share, forget, destroy                *)
(***************************************************************************)
\* shareObjects() in the lifecycle specification.
ShareObjectsAgain(w) ==
  /\ Len(shareHist) < MaxReshares
  /\ ShareObjectsCall(w)

\* User code of the main worker, before it shares the object (no other worker
\* has a view over the buffer): obj[p] = v; obj.flush() (setter, then one
\* locked _executeMutations: the staged value is written to the struct and,
\* the struct being dirty, notify(workerId)).
SetAndFlush(w, p, v) ==
  /\ w = MainWorker
  /\ soLife[w][1] = "live"
  /\ shareHist = <<>>
  /\ nWrites[w] < MaxFlushes
  /\ curProps' = [curProps EXCEPT ![w][p] = v]
  /\ propVal' = StructSetValue(propVal, p, v)
  /\ dirty' = StructSetDirty(dirty, propVal, p, v)
  /\ notifyWord' = IF IsDirty(dirty') THEN w ELSE notifyWord
  /\ nWrites' = [nWrites EXCEPT ![w] = @ + 1]
  /\ UNCHANGED <<soState, mutations, mutationsQueued, waitPromise, initialized,
                 epc, eTodo, eIdx, eExpected, lastChange, changeCalls, lastWrite>>
  /\ UNCHANGED <<lockVars, rtVars, lifeVars, auxVars>>

\* forgetObjects() that also calls destroy() on the caller's object.
ForgetObjectsDestroys(w, i) ==
  /\ rtUp[w]
  /\ soLife[w][i] # "none"
  /\ Len(userOps) < MaxUserOps
  /\ userOps' = Append(userOps, [by |-> w, op |-> "forgetObjects", seq |-> nCalls,
                                  sent |-> RouterForgets(w, i)])
  /\ RouterForget(w, i)
  /\ DestroyCall(w, i, "forgetObjects", "plain")
  /\ UNCHANGED <<rtUp, ready, chan, nextAsyncMsgId, pendingAsyncMsgs, postLog,
                 settleLog, respSeen, shareConfirmed, emitQueue, suppress,
                 delivered, evLog>>
  /\ UNCHANGED <<afterDestroy, shareHist>>
  /\ UNCHANGED <<bufVars, lockVars, soVars, auxVars>>

\* User code calls threadx.forgetObjects([obj]) with instance i.
ForgetObjects(w, i) ==
  /\ rtUp[w]
  /\ soLife[w][i] # "none"
  /\ Len(userOps) < MaxUserOps
  /\ userOps' = Append(userOps, [by |-> w, op |-> "forgetObjects", seq |-> nCalls,
                                  sent |-> RouterForgets(w, i)])
  /\ RouterForget(w, i)
  /\ UNCHANGED <<rtUp, ready, chan, nextAsyncMsgId, pendingAsyncMsgs, postLog,
                 settleLog, respSeen, shareConfirmed, emitQueue, suppress,
                 delivered, evLog>>
  /\ UNCHANGED <<soLife, destroyCause, beforeDestroy, onDestroyCalls,
                 afterDestroy, shareHist>>
  /\ UNCHANGED <<bufVars, lockVars, soVars, auxVars>>

\* User code calls obj.destroy() on instance i.
Destroy(w, i, listener) ==
  /\ rtUp[w]
  /\ soLife[w][i] # "none"
  /\ Len(userOps) < MaxUserOps
  /\ userOps' = Append(userOps, [by |-> w, op |-> "destroy", seq |-> nCalls,
                                  sent |-> RouterForgets(w, i)])
  /\ DestroyCall(w, i, "user", listener)
  /\ UNCHANGED <<mapInst, soData, afterDestroy, shareHist>>
  /\ UNCHANGED <<bufVars, lockVars, soVars, rtVars, auxVars>>

\* finishDestroy(): forgetObjects([this], {silent: true}); sharedObjectStruct
\* = null; struct.notify(); emit('afterDestroy', localOnly).
FinishDestroy(w, i) ==
  /\ soLife' = [soLife EXCEPT ![w][i] = "destroyed"]
  /\ afterDestroy' = [afterDestroy EXCEPT ![w][i] = @ + 1]
  /\ waitPromise' = NotifyWake(waitPromise)
  /\ RouterForget(w, i)
  /\ UNCHANGED <<rtUp, ready, chan, nextAsyncMsgId, pendingAsyncMsgs, postLog,
                 settleLog, respSeen, shareConfirmed, emitQueue, suppress,
                 delivered, evLog>>
  /\ UNCHANGED <<destroyCause, beforeDestroy, onDestroyCalls, userOps,
                 shareHist>>
  /\ UNCHANGED <<soState, curProps, mutations, mutationsQueued, initialized,
                 epc, eTodo, eIdx, eExpected, lastChange, changeCalls, nWrites,
                 lastWrite>>
  /\ UNCHANGED <<bufVars, lockVars, auxVars>>

\* The microtask destroy() queued: mutationMicrotask() calls lockAsync.  When
\* the peer, which has a view over the buffer, holds the lock, the call parks
\* (Atomics.waitAsync) and continues in a later task; else _executeMutations
\* runs at once and, destroying being set, finishDestroy().
DestroyMicrotask(w, i, lockBusy) ==
  /\ soLife[w][i] = "queued"
  /\ lockBusy => \E j \in Insts : soLife[Peer(w)][j] # "none"
  /\ IF lockBusy
       THEN /\ soLife' = [soLife EXCEPT ![w][i] = "parked"]
            /\ UNCHANGED <<mapInst, soData, destroyCause, beforeDestroy,
                           onDestroyCalls, afterDestroy, userOps, shareHist>>
            /\ UNCHANGED <<bufVars, lockVars, soVars, rtVars, auxVars>>
       ELSE FinishDestroy(w, i)

\* The lock has been released and the parked mutationMicrotask() goes on:
\* _executeMutations, then finishDestroy().
DestroyResume(w, i) ==
  /\ soLife[w][i] = "parked"
  /\ FinishDestroy(w, i)

\* A dispatch in the lifecycle specification: the onObjectShared hook emits
\* nothing.
ReceiveQuiet(w) == Dispatch(w, {FALSE})

InitLife == InitRouter

NextLife ==
  \E w \in Workers :
    \/ WorkerInit(w)
    \/ ShareObjectsAgain(w)
    \/ \E p \in Props, v \in Values : SetAndFlush(w, p, v)
    \/ \E i \in Insts : ForgetObjects(w, i)
    \/ \E i \in Insts, listener \in {"plain", "redestroy"} : Destroy(w, i, listener)
    \/ \E i \in Insts, lockBusy \in BOOLEAN : DestroyMicrotask(w, i, lockBusy)
    \/ \E i \in Insts : DestroyResume(w, i)
    \/ PostPending(w)
    \/ ReceiveQuiet(w)

SpecLife == InitLife /\ [][NextLife]_vars

(***************************************************************************)
(* ThreadX.closeWorkerAsync                                                *)
(***************************************************************************)
\* closeWorkerAsync(name, timeout) on main: the worker is registered; the
\* timer is set and sendMessageAsync(name, {threadXMessageType: 'close'}) is
\* called, and the call awaits the race of the two.
CloseWorkerAsync(w) ==
  /\ w = MainWorker
  /\ rtUp[w]
  /\ registered
  /\ closeState = "none"
  /\ closeState' = "racing"
  /\ closeTimer' = "armed"
  /\ closeCall' = <<nCalls + 1>>
  /\ nCalls' = nCalls + 1
  /\ sendQ' = [sendQ EXCEPT ![w] =
                 Append(@, [call |-> nCalls + 1, type |-> "close", async |-> TRUE])]
  /\ UNCHANGED <<rtUp, ready, chan, nextAsyncMsgId, pendingAsyncMsgs, postLog,
                 settleLog, respSeen, known, shareConfirmed, emitQueue,
                 suppress, delivered, evLog>>
  /\ UNCHANGED <<registered, terminated, closed>>
  /\ UNCHANGED <<bufVars, lockVars, soVars, lifeVars, staticVars, extVars>>

\* The setTimeout callback: resolve(false).  When the race is still open the
\* call goes on in the same task with result false.
CloseTimeout(w) ==
  /\ w = MainWorker
  /\ closeTimer = "armed"
  /\ closeTimer' = "fired"
  /\ IF closeState = "racing"
       THEN CloseReturns(RaceResult("timer"))
       ELSE UNCHANGED <<registered, closeState, terminated>>
  /\ UNCHANGED <<closeCall, closed>>
  /\ UNCHANGED <<bufVars, lockVars, soVars, rtVars, lifeVars, staticVars, extVars>>

InitClose == InitRouter

NextClose ==
  \E w \in Workers :
    \/ WorkerInit(w)
    \/ \E async \in BOOLEAN : SendUser(w, async)
    \/ CloseWorkerAsync(w)
    \/ CloseTimeout(w)
    \/ PostPending(w)
    \/ ReceiveQuiet(w)

\* Timers fire: the event loop of the main thread runs the setTimeout
\* callback once the delay has passed.
SpecClose ==
  /\ InitClose
  /\ [][NextClose]_vars
  /\ WF_vars(CloseTimeout(MainWorker))

\* Sharing, emitting and closing the worker, in any order.
NextEmit ==
  \E w \in Workers :
    \/ WorkerInit(w)
    \/ ShareObjects(w)
    \/ Emit(w)
    \/ CloseWorkerAsync(w)
    \/ CloseTimeout(w)
    \/ PostPending(w)
    \/ Receive(w)

SpecEmit == InitRouter /\ [][NextEmit]_vars

(***************************************************************************)
(* ThreadX.init / ThreadX.destroy / generateUniqueId as called by user code *)
(***************************************************************************)
\* init that stores a new router over the one in the slot.
ThreadXInitOverwrites(w, o) ==
  /\ staticLog.n < MaxStaticOps
  /\ Len(routers) < MaxInits
  /\ routers' = Append(routers, NewThreadX(w, o))
  /\ THREADX' = [THREADX EXCEPT ![w] = <<Len(routers) + 1>>]
  /\ staticLog' = [n |-> staticLog.n + 1, by |-> w, op |-> "init",
                   out |-> "returns"]
  /\ rtUp' = [rtUp EXCEPT ![w] = TRUE]
  /\ UNCHANGED <<ready, nCalls, sendQ>>
  /\ UNCHANGED <<chan, nextAsyncMsgId, pendingAsyncMsgs, postLog, settleLog,
                 respSeen, known, shareConfirmed, emitQueue, suppress,
                 delivered, evLog>>
  /\ UNCHANGED <<issued, lastStruct>>
  /\ UNCHANGED <<bufVars, lockVars, soVars, lifeVars, closeVars, extVars>>

\* static init(options): throws when resolvedGlobal.THREADX is set; else
\* constructs the router and stores it in the slot.  Constructed in a
\* dedicated worker, the router registers 'parent' and sends 'ready'.
ThreadXInit(w, o) ==
  /\ staticLog.n < MaxStaticOps
  /\ THREADX[w] = <<>> => Len(routers) < MaxInits
  /\ IF THREADX[w] # <<>>
       THEN /\ staticLog' = [n |-> staticLog.n + 1, by |-> w, op |-> "init",
                             out |-> "throws"]
            /\ UNCHANGED <<THREADX, routers, rtUp, ready, nCalls, sendQ>>
       ELSE /\ routers' = Append(routers, NewThreadX(w, o))
            /\ THREADX' = [THREADX EXCEPT ![w] = <<Len(routers) + 1>>]
            /\ staticLog' = [n |-> staticLog.n + 1, by |-> w, op |-> "init",
                             out |-> "returns"]
            /\ rtUp' = [rtUp EXCEPT ![w] = TRUE]
            /\ IF w = MainWorker
                 THEN UNCHANGED <<ready, nCalls, sendQ>>
                 ELSE /\ ready' = [ready EXCEPT ![w] = TRUE]
                      /\ nCalls' = nCalls + 1
                      /\ sendQ' = [sendQ EXCEPT ![w] =
                           Append(@, [call |-> nCalls + 1, type |-> "ready",
                                      async |-> FALSE])]
  /\ UNCHANGED <<chan, nextAsyncMsgId, pendingAsyncMsgs, postLog, settleLog,
                 respSeen, known, shareConfirmed, emitQueue, suppress,
                 delivered, evLog>>
  /\ UNCHANGED <<issued, lastStruct>>
  /\ UNCHANGED <<bufVars, lockVars, soVars, lifeVars, closeVars, extVars>>

\* static destroy(): warns when the slot is empty; else deletes the slot.
ThreadXDestroy(w) ==
  /\ staticLog.n < MaxStaticOps
  /\ IF THREADX[w] = <<>>
       THEN /\ staticLog' = [n |-> staticLog.n + 1, by |-> w, op |-> "destroy",
                             out |-> "warns"]
            /\ UNCHANGED <<THREADX, rtUp>>
       ELSE /\ THREADX' = [THREADX EXCEPT ![w] = <<>>]
            /\ rtUp' = [rtUp EXCEPT ![w] = FALSE]
            /\ staticLog' = [n |-> staticLog.n + 1, by |-> w, op |-> "destroy",
                             out |-> "returns"]
  /\ UNCHANGED <<ready, sendQ, chan, nextAsyncMsgId, pendingAsyncMsgs, nCalls,
                 postLog, settleLog, respSeen, known, shareConfirmed,
                 emitQueue, suppress, delivered, evLog>>
  /\ UNCHANGED <<routers, issued, lastStruct>>
  /\ UNCHANGED <<bufVars, lockVars, soVars, lifeVars, closeVars, extVars>>

\* static get instance / workerId / workerName: <<>> stands for the throw
\* ('ThreadX not initialized'), <<v>> for the value returned.
StaticInstance(w) == THREADX[w]
StaticWorkerId(w) ==
  IF THREADX[w] = <<>> THEN <<>> ELSE <<routers[THREADX[w][1]].workerId>>
StaticWorkerName(w) ==
  IF THREADX[w] = <<>> THEN <<>> ELSE <<routers[THREADX[w][1]].workerName>>

\* ThreadX.instance.generateUniqueId() called by user code of worker w.
GenerateUniqueId(w) ==
  /\ THREADX[w] # <<>>
  /\ routers[THREADX[w][1]].calls < MaxIds
  /\ routers' = [routers EXCEPT ![THREADX[w][1]] = UniqueIdAfter(@)]
  /\ issued' = issued \cup {IssuedBy(THREADX[w][1])}
  /\ UNCHANGED <<THREADX, staticLog, lastStruct>>
  /\ UNCHANGED <<bufVars, lockVars, soVars, rtVars, lifeVars, closeVars, extVars>>

\* new BufferStruct() without a buffer: float64array[ID_FLOAT64_INDEX] =
\* ThreadX.instance.generateUniqueId(); lastStruct keeps what the struct's id
\* getter reads back.
NewBufferStruct(w) ==
  /\ THREADX[w] # <<>>
  /\ routers[THREADX[w][1]].calls < MaxIds
  /\ routers' = [routers EXCEPT ![THREADX[w][1]] = UniqueIdAfter(@)]
  /\ issued' = issued \cup {IssuedBy(THREADX[w][1])}
  /\ lastStruct' = <<[IssuedBy(THREADX[w][1]) EXCEPT !.id = Float64(@)]>>
  /\ UNCHANGED <<THREADX, staticLog>>
  /\ UNCHANGED <<bufVars, lockVars, soVars, rtVars, lifeVars, closeVars, extVars>>

InitStatic == InitRouter

NextStatic ==
  \E w \in Workers :
    \/ \E o \in ThreadXOptions : ThreadXInit(w, o)
    \/ ThreadXDestroy(w)
    \/ GenerateUniqueId(w)
    \/ NewBufferStruct(w)

SpecStatic == InitStatic /\ [][NextStatic]_vars

(***************************************************************************)
(* Properties: lock                                                        *)
(***************************************************************************)
\* C1: at most one callback of lock()/lockAsync() is between its acquire
\* and its release at any instant.
C1_MutualExclusion ==
  ~(hold[1] = "cb" /\ hold[2] = "cb")

\* C6: when a throwing callback ends, the lock word is stored 0; the notify
\* that follows wakes every call parked on the lock word, and the call
\* rethrows.
C6_ThrowReleases ==
  [][\A w \in Workers :
       /\ (hold[w] = "cb" /\ lkCb[w] = "throws" /\ hold'[w] # "cb")
            => (lockWord' = 0 /\ hold'[w] = "notify")
       /\ (hold[w] = "notify" /\ lkCb[w] = "throws" /\ hold'[w] # "notify")
            => /\ \A v \in Workers : lkParked'[v] = 0
               /\ \A v \in Workers : lkWoken'[v] = lkWoken[v] + lkParked[v]
               /\ outcome'[w] = "threw"]_vars

\* A throwing callback of worker 1 has released the lock and woken the call
\* of worker 2 that was parked on the lock word.
C6_Witness ==
  /\ outcome[1] = "threw"
  /\ hold[1] = "none"
  /\ lockWord = 0
  /\ lkWoken[2] > 0

(***************************************************************************)
(* Properties: SharedObject                                                *)
(***************************************************************************)
\* Worker w has nothing left to run: no callback, no microtask, no lock call
\* pending and no settled waitAsync handle to react to.
Quiet(w) ==
  /\ ThreadFree(w)
  /\ lkParked[w] = 0 /\ lkWoken[w] = 0
  /\ waitPromise[w] \notin {"ok", "ne"}

\* Both workers hold the object and neither has anything left to run: from
\* here on nothing changes unless a worker writes again.
Quiescent == \A w \in Workers : soState[w] = "live" /\ Quiet(w)

\* C2: once both workers have stopped writing and everything queued has run,
\* both workers' getters return the value stored in the buffer, for every
\* property.
C2_Converges ==
  Quiescent => \A w \in Workers, p \in Props : curProps[w][p] = propVal[p]

\* C3: worker 1 wrote a property of the shared object while worker 2 made no
\* writes; once everything has run, the last onPropertyChange of worker 2 for
\* that property carried worker 1's final value.
C3_PeerSeesFinal ==
  (Quiescent /\ nWrites[2] = 0) =>
    \A p \in Props : lastWrite[1][p] # <<>> =>
                        lastChange[2][p] = lastWrite[1][p]

\* C4: while the peer has made no writes, onPropertyChange has not been
\* called on a worker.
C4_NoOwnChange ==
  \A w \in Workers : nWrites[Peer(w)] = 0 => changeCalls[w] = 0

\* C5: at every turn boundary of a worker its getters satisfy
\* numProp1 = numProp2.
C5_PairsEqual ==
  \A w \in Workers :
    (soState[w] = "live" /\ epc[w] = "idle") => curProps[w][1] = curProps[w][2]

(***************************************************************************)
(* Properties: router                                                      *)
(***************************************************************************)
\* The messages worker w posted for send calls that wait for a response.
AsyncPosted(w) == SelectSeq(postLog[w], LAMBDA m : m.call # 0 /\ m.id # <<>>)
\* The calls of worker w whose promise has been settled.
SettledCalls(w) == {settleLog[w][i][1] : i \in 1 .. Len(settleLog[w])}

\* C7: a request that waits for a response is, until settled, registered
\* under an async message id of its own; a promise is settled once at most,
\* under the id its request was posted with, in the way the response with
\* that id said (error flag: rejected), and its entry is then gone.
C7_Correlation ==
  \A w \in Workers :
    /\ \A i \in 1 .. Len(AsyncPosted(w)) :
         LET m == AsyncPosted(w)[i] IN
           (m.call \in SettledCalls(w))
             # (<<m.id[1], m.call, m.type>> \in pendingAsyncMsgs[w])
    /\ \A x, y \in pendingAsyncMsgs[w] : x[1] = y[1] => x = y
    /\ \A i, j \in 1 .. Len(settleLog[w]) :
         settleLog[w][i][1] = settleLog[w][j][1] => i = j
    /\ \A i \in 1 .. Len(settleLog[w]) :
         LET t == settleLog[w][i] IN
           /\ \E k \in 1 .. Len(AsyncPosted(w)) :
                AsyncPosted(w)[k].call = t[1] /\ AsyncPosted(w)[k].id = <<t[2]>>
           /\ <<t[2], t[3] = "rejected">> \in respSeen[w]

\* Two requests of the main router have been settled, one of them rejected,
\* and nothing is pending any more.
C7_Witness ==
  /\ Len(settleLog[MainWorker]) = 2
  /\ \E i \in 1 .. 2 : settleLog[MainWorker][i][3] = "rejected"
  /\ \E i \in 1 .. 2 : settleLog[MainWorker][i][3] = "resolved"
  /\ pendingAsyncMsgs[MainWorker] = {}

\* The messages worker w posted for sendMessage / sendMessageAsync calls.
SendPosted(w) == SelectSeq(postLog[w], LAMBDA m : m.call # 0)
\* Call n of the main router waits for the ready promise / has been posted.
QueuedCall(n) ==
  \E i \in 1 .. Len(sendQ[MainWorker]) : sendQ[MainWorker][i].call = n
PostedCall(n) ==
  \E i \in 1 .. Len(postLog[MainWorker]) : postLog[MainWorker][i].call = n
CallNumbers == 1 .. (MaxSends + MaxShares + 1)

\* C8: the main router posts no message of a send call before the worker's
\* 'ready' has been received; the messages it posts are in call order; and
\* once 'ready' has been received every waiting call is posted.
C8_ReadyGate ==
  /\ [](/\ ~ready[MainWorker] => SendPosted(MainWorker) = <<>>
        /\ \A i, j \in 1 .. Len(SendPosted(MainWorker)) :
             i < j => SendPosted(MainWorker)[i].call < SendPosted(MainWorker)[j].call)
  /\ \A n \in CallNumbers :
       (ready[MainWorker] /\ QueuedCall(n)) ~> PostedCall(n)

\* Two calls were made on the main router before the worker had even started
\* (the worker's 'ready' is call 3); after 'ready' both have been posted.
C8_Witness ==
  /\ ready[MainWorker]
  /\ Len(SendPosted(MainWorker)) = 2
  /\ SendPosted(MainWorker)[1].call = 1
  /\ SendPosted(MainWorker)[2].call = 2
  /\ postLog[2] # <<>> /\ Head(postLog[2]).call = 3

\* The events worker w has posted to its peer, in order.
RECURSIVE EventsOf(_)
EventsOf(msgs) ==
  IF msgs = <<>> THEN <<>>
  ELSE (IF Head(msgs).type = "sharedObjectEmit" THEN Head(msgs).ev ELSE <<>>)
         \o EventsOf(Tail(msgs))
\* How often x occurs in the sequence q.
Count(q, x) == Cardinality({i \in 1 .. Len(q) : q[i] = x})
\* The events dispatched to the listeners of worker w, in order.
DeliveredEvents(w) == [i \in 1 .. Len(delivered[w]) |-> delivered[w][i].ev]

\* C9: an event the main worker emitted while the share was pending is not
\* posted before the confirmation; after the confirmation it has been posted
\* exactly once, in emission order, and once the peer has dispatched all its
\* messages its listeners have seen the event.
C9_QueuedEmits ==
  LET w == MainWorker
      Q == {e \in 1 .. Len(evLog) : evLog[e].by = w /\ evLog[e].phase = "pending"}
      posted == EventsOf(postLog[w])
  IN /\ ~shareConfirmed[w] => \A e \in Q : Count(posted, e) = 0
     /\ shareConfirmed[w] =>
          /\ \A e \in Q : Count(posted, e) = 1
          /\ \A i, j \in 1 .. Len(posted) :
               (i < j /\ posted[i] \in Q /\ posted[j] \in Q) => posted[i] < posted[j]
     /\ (shareConfirmed[w] /\ chan[Peer(w)] = <<>>) =>
          \A e \in Q : Count(DeliveredEvents(Peer(w)), e) = 1

Resolves(w, c) ==
  /\ Len(settleLog'[w]) = Len(settleLog[w]) + 1
  /\ settleLog'[w][Len(settleLog'[w])][1] = c
  /\ settleLog'[w][Len(settleLog'[w])][3] = "resolved"

\* C11: when a shareObjects() call of the main worker resolves, and user code
\* has called neither forgetObjects() nor destroy() since the call was made,
\* the object is in the main router's map, the worker's map holds an object
\* its factory built over the buffer, and both expose the same property
\* values.
C11_ShareResolves ==
  [][\A k \in 1 .. Len(shareHist) :
       (/\ shareHist[k].sent
        /\ Resolves(MainWorker, shareHist[k].seq + 1)
        /\ shareHist[k].ops = Len(userOps))
         => /\ mapInst'[MainWorker] = <<1>>
            /\ mapInst'[2] # <<>>
            /\ soLife'[2][mapInst'[2][1]] # "none"
            /\ curProps'[2] = curProps'[MainWorker]]_vars

\* C12: no shareObjects message is sent for an object whose id the router's
\* map already held when shareObjects() was called.
C12_NoReshare ==
  \A k \in 1 .. Len(shareHist) : shareHist[k].sent => ~shareHist[k].known

\* No message is queued, in flight or awaiting its response, and no destroy()
\* is waiting for its mutation cycle.
LifeQuiet ==
  \A w \in Workers :
    /\ chan[w] = <<>>
    /\ sendQ[w] = <<>>
    /\ pendingAsyncMsgs[w] = {}
    /\ \A i \in Insts : soLife[w][i] \notin {"queued", "parked"}

\* The k-th call of user code was forgetObjects() for an object in the
\* caller's map, and no shareObjects() call was made after it.
ForgetOfShared(k) ==
  /\ userOps[k].op = "forgetObjects"
  /\ userOps[k].sent
  /\ \A j \in 1 .. Len(shareHist) : shareHist[j].ops < k

\* C13: once a forgetObjects() call for a shared object has resolved and
\* everything it started has run (it is the only forgetObjects()/destroy()
\* call of user code, and no shareObjects() call follows it), the id is in
\* neither worker's map and every instance the peer built for it is destroyed.
C13_ForgetBothSides ==
  \A k \in 1 .. Len(userOps) :
    (LifeQuiet /\ ForgetOfShared(k) /\ Len(userOps) = 1)
      => /\ mapInst[userOps[k].by] = <<>>
         /\ mapInst[Peer(userOps[k].by)] = <<>>
         /\ \A i \in Insts :
              soLife[Peer(userOps[k].by)][i] \in {"none", "destroyed"}

\* The step is a forgetObjects() call of user code on worker w.
ForgetCallBy(w) ==
  /\ Len(userOps') = Len(userOps) + 1
  /\ userOps'[Len(userOps')].op = "forgetObjects"
  /\ userOps'[Len(userOps')].by = w

\* C14: a forgetObjects() call leaves the caller's SharedObjects as they
\* were: no instance of the caller changes its destroy state (in particular
\* none becomes destroying or destroyed, and no destroy hook runs), and the
\* shared buffer, the staged mutations and the property values are unchanged.
\* Nothing the call starts destroys them later either: while that call is
\* the only forgetObjects()/destroy() call of user code and no shareObjects()
\* call follows it, every instance of the caller stays alive.
C14_ForgetKeepsOwn ==
  /\ [][\A w \in Workers :
          ForgetCallBy(w)
            => /\ soLife'[w] = soLife[w]
               /\ beforeDestroy'[w] = beforeDestroy[w]
               /\ onDestroyCalls'[w] = onDestroyCalls[w]
               /\ afterDestroy'[w] = afterDestroy[w]
               /\ curProps'[w] = curProps[w]
               /\ mutations'[w] = mutations[w]
               /\ mutationsQueued'[w] = mutationsQueued[w]
               /\ <<notifyWord, dirty, propVal>>' = <<notifyWord, dirty, propVal>>]_vars
  /\ [](\A k \in 1 .. Len(userOps) :
          (ForgetOfShared(k) /\ Len(userOps) = 1)
            => \A i \in Insts : soLife[userOps[k].by][i] \in {"none", "live"})

\* A forgetObjects() call for a shared object has resolved and the caller's
\* object is alive.
C14_Witness ==
  \E k \in 1 .. Len(userOps) :
    /\ ForgetOfShared(k)
    /\ \E j \in 1 .. Len(settleLog[userOps[k].by]) :
         /\ settleLog[userOps[k].by][j][1] = userOps[k].seq + 1
         /\ settleLog[userOps[k].by][j][3] = "resolved"
    /\ \E i \in Insts : soLife[userOps[k].by][i] = "live"

\* C15: destroy() is idempotent and ordered.  An instance on which destroy()
\* has taken effect has emitted 'beforeDestroy' once and run onDestroy() once,
\* whatever number of destroy() calls were made on it; until the queued
\* mutation cycle has run it is not destroyed and has emitted no
\* 'afterDestroy'; once destroyed it has emitted 'afterDestroy' exactly once.
C15_DestroyOnce ==
  \A w \in Workers : \A i \in Insts :
    /\ soLife[w][i] \in {"none", "live"}
         => /\ beforeDestroy[w][i] = 0
            /\ onDestroyCalls[w][i] = 0
            /\ afterDestroy[w][i] = 0
    /\ soLife[w][i] \in {"queued", "parked"}
         => /\ beforeDestroy[w][i] = 1
            /\ onDestroyCalls[w][i] = 1
            /\ afterDestroy[w][i] = 0
    /\ soLife[w][i] = "destroyed"
         => /\ beforeDestroy[w][i] = 1
            /\ onDestroyCalls[w][i] = 1
            /\ afterDestroy[w][i] = 1

\* The forgetObjects messages worker w has sent or queued.
ForgetsSent(w) ==
  Cardinality({k \in 1 .. Len(postLog[w]) : postLog[w][k].type = "forgetObjects"})
    + Cardinality({k \in 1 .. Len(sendQ[w]) : sendQ[w][k].type = "forgetObjects"})

\* The k-th call of user code was destroy() on a live object that was in the
\* caller's map, and no shareObjects() call was made after it.
DestroyOfShared(k) ==
  /\ userOps[k].op = "destroy"
  /\ userOps[k].sent
  /\ \E i \in Insts : destroyCause[userOps[k].by][i] = "user"
  /\ \A j \in 1 .. Len(shareHist) : shareHist[j].ops < k

\* C16: destroy() of a shared object (the only forgetObjects()/destroy() call
\* of user code, no shareObjects() call after it) makes the caller send one
\* forgetObjects message and the peer none: the destroy() the message starts
\* on the peer sends nothing back.  When everything has run the caller's
\* object is destroyed and the id is in neither worker's map.
C16_DestroyForgetsBoth ==
  \A k \in 1 .. Len(userOps) :
    (DestroyOfShared(k) /\ Len(userOps) = 1)
      => /\ ForgetsSent(Peer(userOps[k].by)) = 0
         /\ ForgetsSent(userOps[k].by) <= 1
         /\ LifeQuiet
              => /\ ForgetsSent(userOps[k].by) = 1
                 /\ mapInst[userOps[k].by] = <<>>
                 /\ mapInst[Peer(userOps[k].by)] = <<>>
                 /\ \E i \in Insts : soLife[userOps[k].by][i] = "destroyed"

\* C17: destroy() acts on the calling worker only.  While user code has made
\* no forgetObjects() call, an instance of a worker is destroying or
\* destroyed only if user code of that worker called destroy().
C17_DestroyLocalOnly ==
  (\A k \in 1 .. Len(userOps) : userOps[k].op = "destroy")
    => \A w \in Workers : \A i \in Insts :
         soLife[w][i] \in {"queued", "parked", "destroyed"}
           => \E k \in 1 .. Len(userOps) : userOps[k].by = w

(***************************************************************************)
(* Properties: closeWorkerAsync, ThreadX.init / destroy, unique ids        *)
(***************************************************************************)
\* The promise of the close message has resolved on main.
CloseResponseSeen ==
  /\ closeCall # <<>>
  /\ \E j \in 1 .. Len(settleLog[MainWorker]) :
       /\ settleLog[MainWorker][j][1] = closeCall[1]
       /\ settleLog[MainWorker][j][3] = "resolved"

\* C18: closeWorkerAsync returns 'graceful' when the response to the close
\* message is dispatched while the timer has not fired, and then terminate()
\* is not called; when the timer fires first it calls terminate() and returns
\* 'forced', and it returns 'forced' in no other case; whenever it has
\* returned, the peer is out of the worker registry; and it always returns.
C18_CloseOutcome ==
  /\ [](closeState = "graceful"
          => ~registered /\ ~terminated /\ CloseResponseSeen)
  /\ [](closeState = "forced"
          => ~registered /\ terminated /\ closeTimer = "fired")
  /\ [][(closeState = "racing" /\ Resolves(MainWorker, closeCall[1]))
          => closeState' = "graceful"]_vars
  /\ [][(closeState = "racing" /\ closeTimer' = "fired")
          => closeState' = "forced" /\ terminated' /\ ~CloseResponseSeen]_vars
  /\ [][closeState' # closeState
          => closeState' \in {"racing", "graceful", "forced"}]_vars
  /\ (closeState = "racing" ~> closeState \in {"graceful", "forced"})

\* A closeWorkerAsync call returned 'graceful' and its timer fired afterwards.
C18_Witness ==
  /\ closeState = "graceful"
  /\ closeTimer = "fired"
  /\ closed

\* The step is a ThreadX.init or ThreadX.destroy call made on worker w.
StaticCall(w, op) ==
  /\ staticLog'.n = staticLog.n + 1
  /\ staticLog'.by = w
  /\ staticLog'.op = op

\* C19: one router per worker.  ThreadX.init while the slot holds a router
\* throws and leaves the slot and every router as they were; with the slot
\* empty it constructs one router and stores it.  ThreadX.destroy with an
\* empty slot warns and changes nothing, else it empties the slot.  An empty
\* slot stays empty until an init call of that worker, and while it is empty
\* the static instance, workerId and workerName getters throw; while it holds
\* a router they return that router and its fields.
C19_SingleRouter ==
  /\ [][\A w \in Workers :
          /\ (StaticCall(w, "init") /\ THREADX[w] # <<>>)
               => /\ staticLog'.out = "throws"
                  /\ THREADX' = THREADX
                  /\ routers' = routers
          /\ (StaticCall(w, "init") /\ THREADX[w] = <<>>)
               => /\ staticLog'.out = "returns"
                  /\ Len(routers') = Len(routers) + 1
                  /\ THREADX'[w] = <<Len(routers')>>
                  /\ routers'[Len(routers')].host = w
          /\ (StaticCall(w, "destroy") /\ THREADX[w] = <<>>)
               => /\ staticLog'.out = "warns"
                  /\ THREADX' = THREADX
                  /\ routers' = routers
          /\ (StaticCall(w, "destroy") /\ THREADX[w] # <<>>)
               => /\ staticLog'.out = "returns"
                  /\ THREADX'[w] = <<>>
          /\ (THREADX[w] = <<>> /\ ~StaticCall(w, "init"))
               => THREADX'[w] = <<>>]_vars
  /\ [](\A w \in Workers :
          IF THREADX[w] = <<>>
            THEN /\ StaticInstance(w) = <<>>
                 /\ StaticWorkerId(w) = <<>>
                 /\ StaticWorkerName(w) = <<>>
            ELSE /\ StaticInstance(w) # <<>>
                 /\ routers[StaticInstance(w)[1]].host = w
                 /\ StaticWorkerId(w) = <<routers[StaticInstance(w)[1]].workerId>>
                 /\ StaticWorkerName(w) = <<routers[StaticInstance(w)[1]].workerName>>)

\* A worker's router was destroyed and a new one initialised, and the last
\* call was an init that threw because that router is in the slot.
C19_Witness ==
  /\ staticLog.op = "init"
  /\ staticLog.out = "throws"
  /\ THREADX[staticLog.by] # <<>>
  /\ THREADX[staticLog.by][1] > 1
  /\ routers[THREADX[staticLog.by][1]].host = MainWorker

\* The workerId of the router that issued x, and whether x is one of the ids
\* the generator can count exactly: a workerId of the documented range and a
\* value below SafeInteger.
IssuerId(x) == routers[x.router].workerId
InSafeRange(x) ==
  /\ IssuerId(x) <= MaxSafeWorkerId
  /\ IssuerId(x) * IdStride + x.k <= SafeInteger

\* C20: for routers with a workerId of the documented range, the k-th
\* generateUniqueId() call returns workerId * IdStride + k, so a router's ids
\* are strictly increasing; ids of two routers with distinct workerIds differ
\* within the first IdStride - 1 calls of each; and a new BufferStruct reads
\* back the id that the call made for it returned.
C20_UniqueIds ==
  /\ \A x \in issued :
       InSafeRange(x) => x.id = IssuerId(x) * IdStride + x.k
  /\ \A x, y \in issued :
       (x.router = y.router /\ x.k < y.k /\ InSafeRange(x) /\ InSafeRange(y))
         => x.id < y.id
  /\ \A x, y \in issued :
       (/\ IssuerId(x) # IssuerId(y)
        /\ IssuerId(x) <= MaxSafeWorkerId /\ IssuerId(y) <= MaxSafeWorkerId
        /\ x.k <= IdStride - 1 /\ y.k <= IdStride - 1)
         => x.id # y.id
  /\ \A k \in 1 .. Len(lastStruct) : lastStruct[k] \in issued

\* Two routers with distinct workerIds of the documented range have each made
\* IdStride - 1 calls, the last of them for a new BufferStruct.
C20_Witness ==
  /\ lastStruct # <<>>
  /\ lastStruct[1].k = IdStride - 1
  /\ IssuerId(lastStruct[1]) <= MaxSafeWorkerId
  /\ \E y \in issued :
       /\ IssuerId(y) # IssuerId(lastStruct[1])
       /\ IssuerId(y) <= MaxSafeWorkerId
       /\ y.k = IdStride - 1

(***************************************************************************)
(* genTypeId / isValidTypeId / stringifyTypeId (buffer-struct-utils)       *)
(*                                                                         *)
(* A string is the sequence of its char codes.  A typeId is the int32 a    *)
(* JavaScript bitwise operator yields: -2^31 .. 2^31 - 1.                   *)
(***************************************************************************)

\* The longest tag passed to genTypeId (one more than it accepts).
MaxTagLen == 5

\* Char codes the tags are drawn from: '0' '9' 'A' 'M' 'Z', and 'a', which
\* isValidTypeIdCharCode rejects.
TagCharCodes == {48, 57, 65, 77, 90, 97}

\* Bytes the 32-bit words are drawn from: zero, the ends of both accepted
\* ranges, their outer neighbours, 'a' and 0xff.
WordBytes == {0, 47, 48, 57, 58, 64, 65, 90, 91, 97, 255}

Tags == UNION {[1..n -> TagCharCodes] : n \in 0..MaxTagLen}

isValidTypeIdCharCode(charCode) ==
  (charCode >= 65 /\ charCode <= 90) \/ (charCode >= 48 /\ charCode <= 57)

\* The int32 whose bytes, least significant first, are b[1] .. b[4].
Int32OfBytes(b) ==
  b[1] + b[2] * 256 + b[3] * 65536
    + (IF b[4] >= 128 THEN b[4] - 256 ELSE b[4]) * 16777216

\* typeId & 0xff
LowByte(typeId) == typeId % 256

\* typeId >>> 8: the unsigned shift of the 32-bit pattern.
ShiftRight8(typeId) ==
  IF typeId >= 0 THEN typeId \div 256 ELSE (typeId \div 256) + 16777216

\* typeId | (charCode << (i * 8)), i counted from 0.  The byte i of typeId is
\* still zero when the loop of genTypeId reaches it and charCode is at most
\* 90, so the bitwise or is a sum and stays below 2^31.
OrUnshifted(typeId, charCode, i) == typeId + charCode
OrShifted(typeId, charCode, i) == typeId + charCode * (256 ^ i)

\* genTypeId throws: empty, longer than 4, or a char outside A-Z / 0-9.
genTypeIdThrows(tidString) ==
  \/ Len(tidString) = 0
  \/ Len(tidString) > 4
  \/ \E i \in 1..Len(tidString) : ~isValidTypeIdCharCode(tidString[i])

RECURSIVE genTypeIdFrom(_, _, _)
genTypeIdFrom(tidString, i, typeId) ==
  IF i >= Len(tidString) THEN typeId
  ELSE genTypeIdFrom(tidString, i + 1, OrShifted(typeId, tidString[i + 1], i))

genTypeId(tidString) == genTypeIdFrom(tidString, 0, 0)

RECURSIVE isValidTypeIdFrom(_, _)
isValidTypeIdFrom(typeId, i) ==
  IF i >= 4 THEN TRUE
  ELSE IF ~isValidTypeIdCharCode(LowByte(typeId)) /\ (LowByte(typeId) # 0 \/ i = 0)
       THEN FALSE
       ELSE isValidTypeIdFrom(ShiftRight8(typeId), i + 1)

isValidTypeId(typeId) == isValidTypeIdFrom(typeId, 0)

\* '????'
Unknown == <<63, 63, 63, 63>>

RECURSIVE stringifyTypeIdFrom(_, _, _)
stringifyTypeIdFrom(typeId, i, chars) ==
  IF i >= 4 THEN chars
  ELSE IF isValidTypeIdCharCode(LowByte(typeId))
       THEN stringifyTypeIdFrom(ShiftRight8(typeId), i + 1,
                                Append(chars, LowByte(typeId)))
       ELSE IF LowByte(typeId) # 0 \/ i = 0
            THEN Unknown
            ELSE stringifyTypeIdFrom(ShiftRight8(typeId), i + 1, chars)

stringifyTypeId(typeId) == stringifyTypeIdFrom(typeId, 0, <<>>)

\* The codec is handed a tag, or a 32-bit word that no genTypeId call made.
CodecInputs ==
  {[in |-> "tag", tag |-> t, bytes |-> <<>>, typeId |-> <<>>, str |-> <<>>,
    valid |-> <<>>, threw |-> FALSE] : t \in Tags}
  \cup
  {[in |-> "word", tag |-> <<>>, bytes |-> b, typeId |-> <<Int32OfBytes(b)>>,
    str |-> <<>>, valid |-> <<>>, threw |-> FALSE] : b \in [1..4 -> WordBytes]}

\* The routers, the shared object and its lock are as InitRouter leaves them.
ProgramAtRest ==
  /\ RouterAtRest
  /\ LifeAtRest
  /\ CloseAtRest
  /\ StaticAtRest
  /\ FreshBuffer
  /\ NoSharedObjects
  /\ lockWord = 0
  /\ lockId = [w \in Workers |-> w]
  /\ lkParked = [w \in Workers |-> 0]
  /\ lkWoken = [w \in Workers |-> 0]
  /\ lkMode = [w \in Workers |-> "async"]
  /\ lkCb = [w \in Workers |-> "returns"]
  /\ hold = [w \in Workers |-> "none"]
  /\ outcome = [w \in Workers |-> "none"]

InitCodec ==
  /\ ProgramAtRest
  /\ codec \in CodecInputs
  /\ StructAtRest
  /\ NotifyAtRest
  /\ CycleAtRest
  /\ LoopAtRest
  /\ ParkAtRest

CodecFrame ==
  UNCHANGED <<bufVars, lockVars, soVars, rtVars, lifeVars, closeVars, staticVars, loop, park, struct, waiters, cyc>>

\* genTypeId(tag)
CallGenTypeId ==
  /\ codec.in = "tag"
  /\ codec.typeId = <<>>
  /\ ~codec.threw
  /\ codec' = IF genTypeIdThrows(codec.tag)
              THEN [codec EXCEPT !.threw = TRUE]
              ELSE [codec EXCEPT !.typeId = <<genTypeId(codec.tag)>>]
  /\ CodecFrame

\* stringifyTypeId(typeId)
CallStringifyTypeId ==
  /\ codec.typeId # <<>>
  /\ codec.str = <<>>
  /\ codec' = [codec EXCEPT !.str = <<stringifyTypeId(codec.typeId[1])>>]
  /\ CodecFrame

\* isValidTypeId(typeId)
CallIsValidTypeId ==
  /\ codec.typeId # <<>>
  /\ codec.valid = <<>>
  /\ codec' = [codec EXCEPT !.valid = <<isValidTypeId(codec.typeId[1])>>]
  /\ CodecFrame

NextCodec ==
  \/ CallGenTypeId
  \/ CallStringifyTypeId
  \/ CallIsValidTypeId

SpecCodec == InitCodec /\ [][NextCodec]_vars

(***************************************************************************)
(* Properties: typeId codec                                                *)
(***************************************************************************)

\* A tag of the grammar: one to four characters, each A-Z or 0-9.
TagAlphabet == (65..90) \cup (48..57)
WellFormedTag(t) == Len(t) \in 1..4 /\ \A i \in 1..Len(t) : t[i] \in TagAlphabet

\* C21: for every tag of one to four characters drawn from A-Z and 0-9,
\* genTypeId accepts it, stringifyTypeId of the result is the tag again and
\* isValidTypeId of the result is true.
C21_RoundTrip ==
  (codec.in = "tag" /\ WellFormedTag(codec.tag)) =>
    /\ ~codec.threw
    /\ codec.str # <<>> => codec.str[1] = codec.tag
    /\ codec.valid # <<>> => codec.valid[1] = TRUE

C21_Witness ==
  /\ codec.in = "tag"
  /\ Len(codec.tag) = 4
  /\ WellFormedTag(codec.tag)
  /\ codec.str = <<codec.tag>>
  /\ codec.valid = <<TRUE>>

\* The bytes spell a tag: a well-formed tag followed only by zero bytes.
BytesSpellTag(b) ==
  \E n \in 1..4 :
    /\ \A i \in 1..n : b[i] \in TagAlphabet
    /\ \A i \in (n + 1)..4 : b[i] = 0

\* C22 (first half): a 32-bit value that is not the encoding of a tag (a
\* byte outside A-Z / 0-9 that is not a trailing zero, a zero first byte, a
\* non-zero byte after a zero byte) stringifies to '????' and is not valid.
C22_InvalidRejected ==
  (codec.in = "word" /\ ~BytesSpellTag(codec.bytes)) =>
    /\ codec.str # <<>> => codec.str[1] = Unknown
    /\ codec.valid # <<>> => codec.valid[1] = FALSE

\* C22 (second half): on every 32-bit value the two functions agree:
\* isValidTypeId is true exactly when stringifyTypeId is not '????'.
C22_FunctionsAgree ==
  (codec.str # <<>> /\ codec.valid # <<>>) =>
    (codec.valid[1] <=> codec.str[1] # Unknown)

(***************************************************************************)
(* BufferStruct: property setter, dirty and undefined bit masks            *)
(*                                                                         *)
(* A 32-bit mask word is the set of the bit positions 0..31 that are set:  *)
(* w | (1 << b) is w \cup {b}, w & ~(1 << b) is w \ {b}, !!(w & (1 << b))  *)
(* is b \in w, and the zero word is {}.                                    *)
(***************************************************************************)

\* Calls made on the struct in one run.
MaxStructOps == 3

DIRTY_INT32_INDEX == 6
UNDEFINED_INT32_INDEX == 8

\* Property numbers of the documented layout (two mask words of 32 bits).
PropNums == 0..63

\* The properties written: the first eight, and those at the edges of the
\* two mask words.
WrittenProps == {0, 1, 2, 3, 4, 5, 6, 7, 31, 32, 63}

\* propDefs: the types in turn, every second group of four allowUndefined.
PropDefOf(propNum) ==
  [type |-> CASE propNum % 4 = 0 -> "number"
              [] propNum % 4 = 1 -> "string"
              [] propNum % 4 = 2 -> "boolean"
              [] OTHER -> "int32",
   allowUndefined |-> (propNum \div 4) % 2 = 1]

\* What an all-zero payload reads as.  Values are written as their source
\* text, so that values of different types compare (and differ).
ZeroOf(type) ==
  CASE type = "string" -> "''" [] type = "boolean" -> "false" [] OTHER -> "0"

\* The values user code assigns to a property of the type.
ValuesOf(def) ==
  (CASE def.type = "string" -> {"''", "'abc'"}
     [] def.type = "boolean" -> {"false", "true"}
     [] OTHER -> {"0", "123"})
  \cup (IF def.allowUndefined THEN {"undefined"} ELSE {})

\* Math.floor(propIndex / 32) and propIndex - wordOffset * 32
WordOffset(propIndex) == propIndex \div 32
BitOffset(propIndex) == propIndex - WordOffset(propIndex) * 32

setDirtyFirstWord(int32array, propIndex) ==
  [int32array EXCEPT ![DIRTY_INT32_INDEX] = @ \cup {BitOffset(propIndex)}]

setDirty(int32array, propIndex) ==
  [int32array EXCEPT ![DIRTY_INT32_INDEX + WordOffset(propIndex)] =
                       @ \cup {BitOffset(propIndex)}]

resetDirty(int32array) ==
  [int32array EXCEPT ![DIRTY_INT32_INDEX] = {}, ![DIRTY_INT32_INDEX + 1] = {}]

\* isDirty(propIndex)
isDirtyProp(int32array, propIndex) ==
  BitOffset(propIndex) \in int32array[DIRTY_INT32_INDEX + WordOffset(propIndex)]

\* isDirty()
isDirty(int32array) ==
  int32array[DIRTY_INT32_INDEX] # {} \/ int32array[DIRTY_INT32_INDEX + 1] # {}

setUndefined(int32array, propIndex, value) ==
  [int32array EXCEPT ![UNDEFINED_INT32_INDEX + WordOffset(propIndex)] =
                       IF value THEN @ \cup {BitOffset(propIndex)}
                       ELSE @ \ {BitOffset(propIndex)}]

isUndefined(int32array, propIndex) ==
  BitOffset(propIndex) \in int32array[UNDEFINED_INT32_INDEX + WordOffset(propIndex)]

\* descriptor.get of property propNum
GetProp(s, propNum) ==
  IF PropDefOf(propNum).allowUndefined /\ isUndefined(s.int32array, propNum)
  THEN "undefined"
  ELSE s.payload[propNum]

\* new BufferStruct(): zeroed buffer, allowUndefined properties set undefined.
RECURSIVE SetAllUndefined(_, _)
SetAllUndefined(int32array, propNum) ==
  IF propNum \notin PropNums THEN int32array
  ELSE SetAllUndefined(IF PropDefOf(propNum).allowUndefined
                       THEN setUndefined(int32array, propNum, TRUE)
                       ELSE int32array, propNum + 1)

NewStruct ==
  [made |-> TRUE,
   int32array |-> SetAllUndefined([i \in 6..9 |-> {}], 0),
   notify |-> 0,
   payload |-> [p \in PropNums |-> ZeroOf(PropDefOf(p).type)],
   ops |-> 0,
   last |-> <<>>]

\* descriptor.set of property propNum: the struct after struct[key] = value.
SetterResult(s, propNum, value) ==
  LET allowUndefined == PropDefOf(propNum).allowUndefined
      wasUndefined == allowUndefined /\ isUndefined(s.int32array, propNum)
  IN IF allowUndefined /\ value = "undefined"
     THEN IF wasUndefined THEN s
          ELSE [s EXCEPT !.int32array =
                  setUndefined(setDirty(@, propNum), propNum, TRUE)]
     ELSE LET s1 == IF wasUndefined
                    THEN [s EXCEPT !.int32array =
                            setUndefined(setDirty(@, propNum), propNum, FALSE)]
                    ELSE s
          IN IF value # GetProp(s1, propNum)
             THEN [s1 EXCEPT !.int32array = setDirty(@, propNum),
                             !.payload[propNum] = value]
             ELSE s1

InitStruct ==
  /\ ProgramAtRest
  /\ CodecAtRest
  /\ struct = NewStruct
  /\ NotifyAtRest
  /\ CycleAtRest
  /\ LoopAtRest
  /\ ParkAtRest

StructFrame ==
  UNCHANGED <<bufVars, lockVars, soVars, rtVars, lifeVars, closeVars, staticVars, loop, park, codec, waiters, cyc>>

\* bufferStruct[key] = value
StructWrite(propNum, value) ==
  /\ struct.made
  /\ struct.ops < MaxStructOps
  /\ struct' = [SetterResult(struct, propNum, value) EXCEPT
                  !.ops = @ + 1,
                  !.last = <<[op |-> "write", propNum |-> propNum, value |-> value,
                              old |-> GetProp(struct, propNum),
                              before |-> struct.int32array]>>]
  /\ StructFrame

\* bufferStruct.resetDirty()
StructResetDirty ==
  /\ struct.made
  /\ struct.ops < MaxStructOps
  /\ struct' = [struct EXCEPT !.int32array = resetDirty(@),
                              !.notify = 0,
                              !.ops = @ + 1,
                              !.last = <<[op |-> "resetDirty", propNum |-> 0, value |-> "",
                                          old |-> "", before |-> struct.int32array]>>]
  /\ StructFrame

NextStruct ==
  \/ \E p \in WrittenProps : \E v \in ValuesOf(PropDefOf(p)) : StructWrite(p, v)
  \/ StructResetDirty

SpecStruct == InitStruct /\ [][NextStruct]_vars

(***************************************************************************)
(* Properties: dirty bits                                                  *)
(***************************************************************************)

LastStructOp == struct.last[1]

\* After the last call the property's bit and isDirty() are set and no other
\* property's bit differs from before the call.
WriteMarkedDirty ==
  /\ isDirtyProp(struct.int32array, LastStructOp.propNum)
  /\ isDirty(struct.int32array)
  /\ \A q \in PropNums \ {LastStructOp.propNum} :
       isDirtyProp(struct.int32array, q) <=> isDirtyProp(LastStructOp.before, q)

AllClean ==
  /\ ~isDirty(struct.int32array)
  /\ \A q \in PropNums : ~isDirtyProp(struct.int32array, q)

MaxNotifyOps == 4

\* Values of the notify word, of expectedValue and of notify's argument.
NotifyValues == 0..MaxVal

NoWait ==
  [st |-> "idle", mode |-> "async", expected |-> 0, finite |-> FALSE,
   entry |-> 0, parked |-> FALSE, result |-> "none", wokenBy |-> <<>>]

\* Two views over a new buffer: the notify word is zero.
NewNotifyPair ==
  [made |-> TRUE, word |-> 0, ops |-> 0,
   wait |-> [w \in Workers |-> NoWait],
   todo |-> [w \in Workers |-> <<>>],
   arg |-> [w \in Workers |-> <<>>],
   stored |-> [w \in Workers |-> FALSE]]

\* The thread of view w is not blocked in Atomics.wait.
NotBlocked(w) == ~(waiters.wait[w].st = "parked" /\ waiters.wait[w].mode = "sync")

\* Atomics.wait / Atomics.waitAsync on the notify word: what the call does
\* on entry.  Atomics.wait throws on a thread that may not block.
WaitEntry(w, mode, word, expectedValue) ==
  IF mode = "sync" /\ ~CanAtomicsWait(w) THEN "throws"
  ELSE IF word # expectedValue THEN "not-equal"
  ELSE "parks"

\* wait(expectedValue, timeout) and waitAsync(expectedValue, timeout)
CallWait(w, mode, expectedValue, finite) ==
  /\ waiters.made
  /\ waiters.ops < MaxNotifyOps
  /\ NotBlocked(w)
  /\ waiters.todo[w] = <<>>
  /\ waiters.wait[w].st # "parked"
  /\ LET e == WaitEntry(w, mode, waiters.word, expectedValue)
     IN waiters' = [waiters EXCEPT
                 !.ops = @ + 1,
                 !.wait[w] = [st |-> CASE e = "throws" -> "threw"
                                       [] e = "parks" -> "parked"
                                       [] OTHER -> "returned",
                              mode |-> mode, expected |-> expectedValue,
                              finite |-> finite, entry |-> waiters.word,
                              parked |-> e = "parks",
                              result |-> IF e = "not-equal" THEN e ELSE "none",
                              wokenBy |-> <<>>]]
  /\ UNCHANGED <<bufVars, lockVars, soVars, rtVars, lifeVars, closeVars, staticVars, loop, park, codec, struct, cyc>>

\* The atomic operations of notify(value), in program order.
NotifyStepsWakeFirst(arg) == IF arg # <<>> THEN <<"wake", "store">> ELSE <<"wake">>
NotifySteps(arg) == IF arg # <<>> THEN <<"store", "wake">> ELSE <<"wake">>

\* notify(value?) is called (arg: <<value>>, or <<>> when none is passed).
CallNotify(w, arg) ==
  /\ waiters.made
  /\ waiters.ops < MaxNotifyOps
  /\ NotBlocked(w)
  /\ waiters.todo[w] = <<>>
  /\ waiters' = [waiters EXCEPT !.ops = @ + 1,
                      !.todo[w] = NotifySteps(arg),
                      !.arg[w] = arg, !.stored[w] = FALSE]
  /\ UNCHANGED <<bufVars, lockVars, soVars, rtVars, lifeVars, closeVars, staticVars, loop, park, codec, struct, cyc>>

\* Atomics.store(int32array, NOTIFY_INT32_INDEX, value)
NotifyStore(w) ==
  /\ waiters.made
  /\ waiters.todo[w] # <<>> /\ Head(waiters.todo[w]) = "store"
  /\ waiters' = [waiters EXCEPT !.word = waiters.arg[w][1], !.stored[w] = TRUE,
                      !.todo[w] = Tail(@)]
  /\ UNCHANGED <<bufVars, lockVars, soVars, rtVars, lifeVars, closeVars, staticVars, loop, park, codec, struct, cyc>>

\* Atomics.notify(int32array, NOTIFY_INT32_INDEX): every waiter parked on the
\* word is woken and its wait returns 'ok'.
NotifyWakeAll(w) ==
  /\ waiters.made
  /\ waiters.todo[w] # <<>> /\ Head(waiters.todo[w]) = "wake"
  /\ waiters' = [waiters EXCEPT
              !.todo[w] = Tail(@),
              !.wait = [v \in Workers |->
                          IF waiters.wait[v].st = "parked"
                          THEN [waiters.wait[v] EXCEPT
                                  !.st = "returned", !.result = "ok",
                                  !.wokenBy = <<[by |-> w, arg |-> waiters.arg[w],
                                                 stored |-> waiters.stored[w],
                                                 word |-> waiters.word]>>]
                          ELSE waiters.wait[v]]]
  /\ UNCHANGED <<bufVars, lockVars, soVars, rtVars, lifeVars, closeVars, staticVars, loop, park, codec, struct, cyc>>

\* The timeout of a parked wait elapses.
WaitTimesOut(w) ==
  /\ waiters.made
  /\ waiters.wait[w].st = "parked"
  /\ waiters.wait[w].finite
  /\ waiters' = [waiters EXCEPT !.wait[w].st = "returned", !.wait[w].result = "timed-out"]
  /\ UNCHANGED <<bufVars, lockVars, soVars, rtVars, lifeVars, closeVars, staticVars, loop, park, codec, struct, cyc>>

InitNotify ==
  /\ ProgramAtRest
  /\ CodecAtRest
  /\ StructAtRest
  /\ waiters = NewNotifyPair
  /\ CycleAtRest
  /\ LoopAtRest
  /\ ParkAtRest

NextNotify ==
  \E w \in Workers :
    \/ \E mode \in {"sync", "async"}, e \in NotifyValues, finite \in BOOLEAN :
         CallWait(w, mode, e, finite)
    \/ \E arg \in {<<>>} \cup {<<v>> : v \in NotifyValues} : CallNotify(w, arg)
    \/ NotifyStore(w)
    \/ NotifyWakeAll(w)
    \/ WaitTimesOut(w)

SpecNotify == InitNotify /\ [][NextNotify]_vars

(***************************************************************************)
(* Properties: notify / wait                                               *)
(***************************************************************************)

\* What holds of every wait call, whatever thread made it: 'not-equal' is
\* returned without parking and only when the word differed on entry; a
\* call that found the word equal parked; a parked call returns 'ok' (woken
\* by a notify) or 'timed-out' (finite timeout, no notify woke it); and a
\* notify(v) that woke a waiter had stored v before.
WaitOutcome(r) ==
  /\ r.result = "not-equal" => (r.entry # r.expected /\ ~r.parked)
  /\ (r.st \in {"parked", "returned"} /\ r.entry = r.expected) => r.parked
  /\ r.parked <=> (r.st = "parked" \/ r.result \in {"ok", "timed-out"})
  /\ r.result = "ok" <=> r.wokenBy # <<>>
  /\ r.result = "timed-out" => r.finite
  /\ (r.wokenBy # <<>> /\ r.wokenBy[1].arg # <<>>) => r.wokenBy[1].stored

\* C24 (as stated): wait(expected) and waitAsync(expected) return
\* 'not-equal' without parking when the notify word differs from expected on
\* entry, 'ok' when parked and then woken by a notify() of any view and
\* 'timed-out' when the timeout elapses with no notify; notify(v) stores v
\* before it wakes the waiters.
C24_WaitReturns ==
  waiters.made =>
    \A w \in Workers :
      /\ WaitOutcome(waiters.wait[w])
      /\ (waiters.wait[w].st # "idle" /\ waiters.wait[w].entry # waiters.wait[w].expected)
           => waiters.wait[w].result = "not-equal"

\* C24 (amended): the same for waitAsync on any thread and for wait on a
\* thread that may block; wait on the main thread throws.
C24_WaitOutcomes ==
  waiters.made =>
    \A w \in Workers :
      /\ WaitOutcome(waiters.wait[w])
      /\ waiters.wait[w].st = "threw"
           <=> (waiters.wait[w].st # "idle" /\ waiters.wait[w].mode = "sync"
                /\ ~CanAtomicsWait(w))
      /\ (waiters.wait[w].st \notin {"idle", "threw"}
          /\ waiters.wait[w].entry # waiters.wait[w].expected)
           => waiters.wait[w].result = "not-equal"

C24_Witness ==
  /\ waiters.made
  /\ waiters.wait[2].mode = "sync"
  /\ waiters.wait[2].result = "ok"
  /\ waiters.wait[2].wokenBy[1].by = MainWorker
  /\ waiters.wait[2].wokenBy[1].arg = <<1>>
  /\ waiters.wait[MainWorker].mode = "async"
  /\ waiters.wait[MainWorker].result = "timed-out"

(***************************************************************************)
(* Properties: the mutation cycle                                          *)
(***************************************************************************)

\* C25: an assignment to a property of a SharedObject is visible through the
\* getter (curProps) at once, and leaves the shared buffer (payloads, dirty
\* bits, notify word) as it was; a payload changes only in a step of a
\* running cycle that flushes the staged writes.
C25_LocalFirst ==
  [][/\ \A w \in Workers, p \in Props, v \in Values :
          SetProp(w, p, v) =>
            /\ curProps'[w][p] = v
            /\ UNCHANGED bufVars
            /\ p \in mutations'[w] /\ mutationsQueued'[w]
     /\ propVal' # propVal =>
          \E w \in Workers : epc[w] = "flush" /\ ~mutationsQueued[w] /\ hold[w] # "none"
    ]_vars

\* A property was assigned a new value, no cycle has run yet: the getter
\* returns it while the buffer still holds the old one.
C25_Witness ==
  \E w \in Workers, p \in Props :
    /\ soState[w] = "live" /\ epc[w] = "idle" /\ mutationsQueued[w]
    /\ p \in mutations[w]
    /\ curProps[w][p] = 1
    /\ propVal[p] = 0
    /\ ~IsDirty(dirty)

\* Worker w is inside _executeMutations (processDirtyProperties and
\* resetDirty included).
InExecuteMutations(w) ==
  epc[w] \in {"check", "pd", "resetN", "resetD", "flush", "notify", "wait"}

\* Worker w is between a successful acquire and the release of the lock.
HoldsLock(w) == hold[w] = "cb" /\ lockWord = lockId[w]

ProperLockIds == \A w \in Workers : lockId[w] # 0 /\ lockId[w] # lockId[Peer(w)]

\* C26: whenever a worker is inside _executeMutations it holds the buffer
\* lock, or it is in the constructor of its SharedObject and no other worker
\* has a view of the buffer (lock ids taken non-zero and distinct).
C26_CyclesLocked ==
  ProperLockIds =>
    \A w \in Workers :
      InExecuteMutations(w) =>
        \/ HoldsLock(w)
        \/ soState[w] = "ctor" /\ soState[Peer(w)] = "absent"

\* C26 (consequence): a step that changes the dirty bits, the notify word or
\* a payload while both workers have a view is taken by a worker that holds
\* the lock.
C26_WritesLocked ==
  [][(ProperLockIds /\ bufVars' # bufVars /\ \A w \in Workers : soState[w] # "absent")
       => \E w \in Workers : HoldsLock(w) /\ InExecuteMutations(w)]_vars

\* BufferStruct.isLocked
isLocked == lockWord # 0

\* C27: the lock word is non-zero exactly while some view is between a
\* successful acquire and its release, and then holds that view's lock id;
\* isLocked is true throughout every lock() / lockAsync() callback.
C27_LockWord ==
  /\ isLocked <=> \E w \in Workers : hold[w] = "cb"
  /\ \A w \in Workers : hold[w] = "cb" => (isLocked /\ lockWord = lockId[w])

\* C27 (lock ids): every view's lock id is non-zero and differs from every
\* other view's.
C27_LockIds ==
  \A w \in Workers : lockId[w] # 0 /\ lockId[w] # lockId[Peer(w)]

\* C28: the latest wait handle of a SharedObject never resolves with anything
\* but 'ok' (the assertion of the wake handler does not fail), and when a
\* cycle starts its waitAsync the notify word equals the expected value (lock
\* ids taken non-zero and distinct).
C28_WaitOk ==
  ProperLockIds =>
    \A w \in Workers :
      /\ waitPromise[w] \notin {"ne", "dead"}
      /\ epc[w] = "wait" => notifyWord = eExpected[w]

\* Worker w's running cycle found the notify word different from its id and
\* dirty bits set, and is past processDirtyProperties and resetDirty.
PastReconcile(w) ==
  cyc[w].on /\ epc[w] \in {"flush", "notify", "wait", "done"}

\* C29: in a cycle that finds the notify word different from the worker's id
\* and the dirty bit of P set, the staged write to P is dropped: once the
\* dirty properties are processed and the dirty bits cleared, P is not among
\* the staged writes the cycle flushes, so the cycle leaves the buffer value
\* of P as it is (lock ids taken non-zero and distinct).
C29_StagedDiscarded ==
  ProperLockIds =>
    \A w \in Workers, p \in Props :
      (PastReconcile(w) /\ p \in cyc[w].dirty) =>
        /\ p \notin eTodo[w]
        /\ p \notin mutations[w]

\* The worker whose cycle most recently wrote a property to the buffer (0:
\* none has).
LastWriter ==
  IF FlushCount = 0 THEN 0
  ELSE IF cyc[1].flushedAt > cyc[2].flushedAt THEN 1 ELSE 2

\* No cycle is under way on any worker.
NoCycleRunning == \A w \in Workers : epc[w] \in {"idle", "done"}

\* C30 (as stated): whenever the cycles that were started have completed, the
\* notify word is the worker id of the worker whose cycle most recently
\* wrote a property to the buffer (lock ids taken non-zero and distinct).
C30_NotifyIsLastWriter ==
  (ProperLockIds /\ NoCycleRunning /\ LastWriter # 0) => notifyWord = LastWriter

\* C30 (the cycle that wrote): when a cycle that wrote a property has
\* completed and no cycle has written since, the notify word is its worker's
\* id and no handle of the peer is still parked with another expected value
\* (lock ids taken non-zero and distinct).
C30_WriterLeavesId ==
  ProperLockIds =>
    \A w \in Workers :
      (epc[w] = "done" /\ cyc[w].wrote /\ LastWriter = w) =>
        /\ notifyWord = w
        /\ ~(waitPromise[Peer(w)] = "parked" /\ eExpected[Peer(w)] # w)

(***************************************************************************)
(* Properties: onPropertyChange                                            *)
(***************************************************************************)
\* The onPropertyChange(p, ..) call a step makes on worker w, if it makes one.
ChangeCalled(w, p) == cyc'[w].changes[p] > cyc[w].changes[p]

\* Each onPropertyChange call carries the buffer value the object adopts as
\* newValue and the getter's value just before as oldValue, and is made by a
\* constructed object.
C31_ChangeArgs ==
  [][\A w \in Workers, p \in Props :
       ChangeCalled(w, p) =>
         /\ cyc'[w].last[p][1].newValue = propVal[p]
         /\ cyc'[w].last[p][1].newValue = curProps'[w][p]
         /\ cyc'[w].last[p][1].oldValue = curProps[w][p]
         /\ initialized[w] /\ soState[w] = "live"]_vars

\* onPropertyChange(p) has been called on a worker at most as often as the
\* peer's flush loops have written p to the buffer.
C31_AtMostOncePerFlush ==
  \A w \in Workers, p \in Props :
    cyc[w].changes[p] <= cyc[Peer(w)].flushes[p]

\* C31: each flush of a property by the peer causes at most one
\* onPropertyChange call for that property on the receiving SharedObject
\* (several flushes may coalesce into one call); each call carries the buffer
\* value adopted as newValue and the receiver's local value just before as
\* oldValue, and none is made during construction.
C31_OnPropertyChange == []C31_AtMostOncePerFlush /\ C31_ChangeArgs

(***************************************************************************)
(* SharedObject: one worker's event loop, job by job                       *)
(*                                                                         *)
(* Worker loop.w owns a live SharedObject over the shared buffer; its      *)
(* thread runs one job at a time: user code, the queueMutations microtask, *)
(* the continuations of lockAsync and mutationMicrotask, and the tasks     *)
(* that resolve waitAsync promises.  The peer's thread runs its own locked *)
(* cycles beside it.  Lock ids are non-zero and distinct.                  *)
(***************************************************************************)
\* Calls user code makes on the object (setter, destroy, flush,
\* extractBuffer), and jobs of user code (tasks and continuations after await).
MaxLoopOps == 3
MaxUserJobs == 3
\* Property writes of the peer's user code.
MaxPeerWrites == 1

\* The jobs of the microtask queue.
\*   "U"  user code (a task's body or a continuation after await)
\*   "M"  the microtask of queueMutations
\*   "R"  lockAsync after `await callback()`: the finally block
\*   "D"  mutationMicrotask after the awaited lockAsync: the destroying check
Jobs == {"U", "M", "R", "D"}

\* The job the thread of the owner is running.
Running(j) ==
  /\ loop.made
  /\ loop.blocked = "no"
  /\ loop.queue # <<>>
  /\ Head(loop.queue) = j

\* The microtask queue is empty: the thread takes the next task.
TakesTask ==
  /\ loop.made
  /\ loop.blocked = "no"
  /\ loop.queue = <<>>

\* !this.sharedObjectStruct
StructNeverReleased(l) == FALSE
StructReleased(l) == ~l.hasStruct

\* _executeMutations() of worker w from the dirty check to waitAsync, as one
\* step (the caller holds the lock): processDirtyProperties, the flush loop,
\* notify(workerId) when a dirty bit is set, and the new wait handle.
RunCycle(w, wp) ==
  LET reconciles == ShouldProcessDirty(w, notifyWord, dirty)
      adopted == IF reconciles THEN dirty ELSE {}
      cur == [p \in Props |-> IF p \in adopted THEN propVal[p] ELSE curProps[w][p]]
      captured == mutations[w] \ adopted
      dirtyAfter == IF reconciles THEN {} ELSE dirty
      written == {p \in captured : cur[p] # propVal[p]}
      notifies == IsDirty(dirtyAfter \cup written)
      word == IF notifies THEN w ELSE IF reconciles THEN 0 ELSE notifyWord
  IN
  /\ curProps' = [curProps EXCEPT ![w] = cur]
  /\ mutations' = [mutations EXCEPT ![w] = {}]
  /\ propVal' = [p \in Props |-> IF p \in written THEN cur[p] ELSE propVal[p]]
  /\ dirty' = dirtyAfter \cup written
  /\ notifyWord' = word
  /\ waitPromise' = [(IF notifies THEN NotifyWake(wp) ELSE wp)
                       EXCEPT ![w] = WaitAsyncResult(word, word)]
  /\ changeCalls' = [changeCalls EXCEPT ![w] =
                       IF initialized[w] THEN @ + Cardinality(adopted) ELSE @]
  /\ lastChange' = [lastChange EXCEPT ![w] =
                      [p \in Props |-> IF initialized[w] /\ p \in adopted
                                       THEN <<propVal[p]>> ELSE @[p]]]

\* What a cycle of the owner leaves in the history kept for the properties.
AfterCycle(l) ==
  [l EXCEPT !.pending = {},
            !.late = IF l.hasStruct THEN @ ELSE TRUE]

\* private _executeMutations(): if (!this.sharedObjectStruct) return; ...
\* wp: the wait handles when it is called; l: the loop record the calling job
\* leaves.
ExecuteMutations(w, wp, l) ==
  IF StructReleased(l)
    THEN /\ UNCHANGED <<bufVars, curProps, mutations, changeCalls, lastChange>>
         /\ waitPromise' = wp
         /\ loop' = l
    ELSE /\ RunCycle(w, wp)
         /\ loop' = AfterCycle(l)

\* What the loop specification never touches.
LoopFrame ==
  /\ UNCHANGED <<lockId, lkParked, lkWoken, lkMode, lkCb, hold, outcome>>
  /\ UNCHANGED <<soState, initialized, epc, eTodo, eIdx, eExpected, nWrites,
                 lastWrite>>
  /\ UNCHANGED <<rtVars, lifeVars, closeVars, staticVars, codec, struct,
                 waiters, cyc, park>>

\* lockAsync(callback) from its first line: compareExchange, then either the
\* callback (whose promise is awaited, job "R") or waitAsync on the lock word.
EnterLockAsync(w, wp, l) ==
  IF CompareExchangeLoad(lockWord) = 0
    THEN /\ lockWord' = CompareExchangeStore(lockWord, lockId[w])
         /\ ExecuteMutations(w, wp, [l EXCEPT !.queue = Append(@, "R")])
    ELSE /\ lockWord' = lockWord
         /\ loop' = [l EXCEPT !.parked = @ + 1]
         /\ waitPromise' = wp
         /\ UNCHANGED <<bufVars, curProps, mutations, changeCalls, lastChange>>

\* The object of worker w just after construction, as the loop follows it.
NewLoop(w) ==
  [made |-> TRUE, w |-> w, queue |-> <<>>, parked |-> 0, woken |-> 0,
   destroying |-> FALSE, hasStruct |-> TRUE, blocked |-> "no",
   ops |-> 0, jobs |-> 0, last |-> [op |-> "none", out |-> "none"],
   pending |-> {}, late |-> FALSE, peerWrites |-> 0]

\* queueMutations(): if (this.mutationsQueued) return; mutationsQueued = true;
\* queueMicrotask(..).  The queue afterwards.
QueueMutations(w, q) == IF mutationsQueued[w] THEN q ELSE Append(q, "M")

\* A call user code makes: its number and how it ended.
Called(l, op, out) == [l EXCEPT !.ops = @ + 1, !.last = [op |-> op, out |-> out]]

\* A task of user code begins.
UserTask ==
  /\ TakesTask
  /\ loop.jobs < MaxUserJobs
  /\ loop' = [loop EXCEPT !.queue = <<"U">>, !.jobs = @ + 1]
  /\ UNCHANGED <<bufVars, lockWord, curProps, mutations, mutationsQueued,
                 waitPromise, changeCalls, lastChange>>
  /\ LoopFrame

\* User code awaits a settled promise: its continuation is queued.
UserYields ==
  /\ Running("U")
  /\ loop.jobs < MaxUserJobs
  /\ loop' = [loop EXCEPT !.queue = Append(Tail(@), "U"), !.jobs = @ + 1]
  /\ UNCHANGED <<bufVars, lockWord, curProps, mutations, mutationsQueued,
                 waitPromise, changeCalls, lastChange>>
  /\ LoopFrame

\* The job of user code ends.
UserReturns ==
  /\ Running("U")
  /\ loop' = [loop EXCEPT !.queue = Tail(@)]
  /\ UNCHANGED <<bufVars, lockWord, curProps, mutations, mutationsQueued,
                 waitPromise, changeCalls, lastChange>>
  /\ LoopFrame

\* obj.p = v: the accessor of the constructor (also after destroy()).
UserSet(p, v) ==
  LET w == loop.w IN
  /\ Running("U")
  /\ loop.ops < MaxLoopOps
  /\ curProps' = [curProps EXCEPT ![w][p] = v]
  /\ mutations' = [mutations EXCEPT ![w] = @ \cup {p}]
  /\ mutationsQueued' = [mutationsQueued EXCEPT ![w] = TRUE]
  /\ loop' = [Called(loop, "set", "returned") EXCEPT
                !.queue = QueueMutations(w, @)]
  /\ UNCHANGED <<bufVars, lockWord, waitPromise, changeCalls, lastChange>>
  /\ LoopFrame

\* obj.destroy(): if (this.destroying || !struct) return; destroying = true;
\* onDestroy(); queueMutations().
UserDestroy ==
  LET w == loop.w IN
  /\ Running("U")
  /\ loop.ops < MaxLoopOps
  /\ IF loop.destroying \/ StructReleased(loop)
       THEN /\ loop' = Called(loop, "destroy", "returned")
            /\ UNCHANGED mutationsQueued
       ELSE /\ loop' = [Called(loop, "destroy", "returned") EXCEPT
                          !.destroying = TRUE,
                          !.pending = mutations[w],
                          !.queue = QueueMutations(w, @)]
            /\ mutationsQueued' = [mutationsQueued EXCEPT ![w] = TRUE]
  /\ UNCHANGED <<bufVars, lockWord, curProps, mutations, waitPromise,
                 changeCalls, lastChange>>
  /\ LoopFrame

\* flush() throws on an object that is or was being destroyed.
FlushThrowsWhenReleased(l) == StructReleased(l)
FlushThrows(l) == l.destroying \/ StructReleased(l)

\* lock(callback) with the lock word free: compareExchange, the callback
\* (_executeMutations), and the finally block: store 0, notify the lock word.
LockedCycle(w, l) ==
  /\ lockWord' = ReleaseStore(w)
  /\ ExecuteMutations(w, waitPromise,
                      [l EXCEPT !.woken = @ + l.parked, !.parked = 0])

\* obj.flush(): throws, or lock(() => this._executeMutations()); when the
\* lock word is taken the thread stays in lock() (Atomics.wait, or the spin
\* of the main thread).
UserFlush ==
  LET w == loop.w IN
  /\ Running("U")
  /\ loop.ops < MaxLoopOps
  /\ IF FlushThrows(loop)
       THEN /\ loop' = Called(loop, "flush", "threw")
            /\ UNCHANGED <<bufVars, lockWord, curProps, mutations, waitPromise,
                           changeCalls, lastChange>>
       ELSE IF CompareExchangeLoad(lockWord) = 0
         THEN LockedCycle(w, Called(loop, "flush", "returned"))
         ELSE /\ loop' = [Called(loop, "flush", "pending") EXCEPT
                            !.blocked = "flush"]
              /\ UNCHANGED <<bufVars, lockWord, curProps, mutations,
                             waitPromise, changeCalls, lastChange>>
  /\ UNCHANGED mutationsQueued
  /\ LoopFrame

\* lock(): the compareExchange of the loop succeeds; flush() returns.
FlushAcquires ==
  LET w == loop.w IN
  /\ loop.made
  /\ loop.blocked = "flush"
  /\ CompareExchangeLoad(lockWord) = 0
  /\ LockedCycle(w, [loop EXCEPT !.blocked = "no", !.last.out = "returned"])
  /\ UNCHANGED mutationsQueued
  /\ LoopFrame

\* SharedObject.extractBuffer(obj)
ExtractThrows(l) == l.destroying \/ StructReleased(l)
UserExtract ==
  /\ Running("U")
  /\ loop.ops < MaxLoopOps
  /\ loop' = Called(loop, "extractBuffer",
                    IF ExtractThrows(loop) THEN "threw" ELSE "returned")
  /\ UNCHANGED <<bufVars, lockWord, curProps, mutations, mutationsQueued,
                 waitPromise, changeCalls, lastChange>>
  /\ LoopFrame

\* The microtask of queueMutations: mutationsQueued = false; if
\* (!this.sharedObjectStruct) return; mutationMicrotask(): lockAsync(..).
QueuedMicrotask ==
  LET w == loop.w
      l == [loop EXCEPT !.queue = Tail(@)] IN
  /\ Running("M")
  /\ mutationsQueued' = [mutationsQueued EXCEPT ![w] = FALSE]
  /\ IF StructReleased(loop)
       THEN /\ loop' = l
            /\ UNCHANGED <<bufVars, lockWord, curProps, mutations, waitPromise,
                           changeCalls, lastChange>>
       ELSE EnterLockAsync(w, waitPromise, l)
  /\ LoopFrame

\* lockAsync after `await callback()`: finally { store 0; notify the lock
\* word }; return result, which resumes mutationMicrotask one job later.
LockAsyncResumes ==
  /\ Running("R")
  /\ lockWord' = ReleaseStore(loop.w)
  /\ loop' = [loop EXCEPT !.queue = Append(Tail(@), "D"),
                          !.woken = @ + loop.parked, !.parked = 0]
  /\ UNCHANGED <<bufVars, curProps, mutations, mutationsQueued, waitPromise,
                 changeCalls, lastChange>>
  /\ LoopFrame

\* finishDestroy(): if (!this.destroying || !struct) return; forgetObjects;
\* sharedObjectStruct = null; struct.notify(); emit('afterDestroy').
FinishDestroyRuns(l) == l.destroying /\ ~StructReleased(l)

\* mutationMicrotask after the awaited lockAsync: if (this.destroying)
\* this.finishDestroy().
MicrotaskResumes ==
  /\ Running("D")
  /\ IF FinishDestroyRuns(loop)
       THEN /\ loop' = [loop EXCEPT !.queue = Tail(@), !.hasStruct = FALSE]
            /\ waitPromise' = NotifyWake(waitPromise)
       ELSE /\ loop' = [loop EXCEPT !.queue = Tail(@)]
            /\ UNCHANGED waitPromise
  /\ UNCHANGED <<bufVars, lockWord, curProps, mutations, mutationsQueued,
                 changeCalls, lastChange>>
  /\ LoopFrame

\* The task that resolves the waitAsync promise of a parked lockAsync call:
\* the loop of lockAsync runs compareExchange again.
LockWaitResolves ==
  /\ TakesTask
  /\ loop.woken > 0
  /\ EnterLockAsync(loop.w, waitPromise, [loop EXCEPT !.woken = @ - 1])
  /\ UNCHANGED mutationsQueued
  /\ LoopFrame

\* The then() callback of the latest wait handle: if (this.waitPromise ===
\* waitPromise && this.sharedObjectStruct) { assertTruthy(result === 'ok');
\* this.waitPromise = null; await this.mutationMicrotask() }.
WakeHandler ==
  LET w == loop.w IN
  /\ TakesTask
  /\ waitPromise[w] \in {"ok", "ne"}
  /\ IF StructReleased(loop) \/ waitPromise[w] = "ne"
       THEN /\ waitPromise' = [waitPromise EXCEPT ![w] = "dead"]
            /\ UNCHANGED <<bufVars, lockWord, curProps, mutations, changeCalls,
                           lastChange, loop>>
       ELSE EnterLockAsync(w, [waitPromise EXCEPT ![w] = "null"], loop)
  /\ UNCHANGED mutationsQueued
  /\ LoopFrame

\* The peer's user code assigns a property of its SharedObject.
PeerSet(p, v) ==
  LET o == Peer(loop.w) IN
  /\ loop.made
  /\ lockWord # lockId[o]
  /\ loop.peerWrites < MaxPeerWrites
  /\ curProps' = [curProps EXCEPT ![o][p] = v]
  /\ mutations' = [mutations EXCEPT ![o] = @ \cup {p}]
  /\ loop' = [loop EXCEPT !.peerWrites = @ + 1]
  /\ UNCHANGED <<bufVars, lockWord, mutationsQueued, waitPromise, changeCalls,
                 lastChange>>
  /\ LoopFrame

\* The peer's mutationMicrotask (after a write or a wake): lockAsync acquires.
PeerLocks ==
  LET o == Peer(loop.w) IN
  /\ loop.made
  /\ mutations[o] # {} \/ waitPromise[o] = "ok"
  /\ CompareExchangeLoad(lockWord) = 0
  /\ lockWord' = CompareExchangeStore(lockWord, lockId[o])
  /\ UNCHANGED <<bufVars, curProps, mutations, mutationsQueued, waitPromise,
                 changeCalls, lastChange, loop>>
  /\ LoopFrame

\* The peer's callback (_executeMutations) and the finally block of its
\* lockAsync: store 0 and notify the lock word, which wakes the owner's
\* parked calls.
PeerUnlocks ==
  LET o == Peer(loop.w) IN
  /\ loop.made
  /\ lockWord = lockId[o]
  /\ lockWord' = ReleaseStore(o)
  /\ RunCycle(o, waitPromise)
  /\ loop' = [loop EXCEPT !.woken = @ + loop.parked, !.parked = 0]
  /\ UNCHANGED mutationsQueued
  /\ LoopFrame

\* Both workers hold a constructed SharedObject over the buffer; each has run
\* the constructor's cycle and waits on the notify word.
InitLoop ==
  /\ FreshBuffer
  /\ RouterAtRest
  /\ LifeAtRest
  /\ CloseAtRest
  /\ StaticAtRest
  /\ CodecAtRest
  /\ StructAtRest
  /\ NotifyAtRest
  /\ CycleAtRest
  /\ ParkAtRest
  /\ lockWord = 0
  /\ lockId = [w \in Workers |-> w]
  /\ lkParked = [w \in Workers |-> 0]
  /\ lkWoken = [w \in Workers |-> 0]
  /\ lkMode = [w \in Workers |-> "async"]
  /\ lkCb = [w \in Workers |-> "exec"]
  /\ hold = [w \in Workers |-> "none"]
  /\ outcome = [w \in Workers |-> "none"]
  /\ soState = [w \in Workers |-> "live"]
  /\ curProps = [w \in Workers |-> [p \in Props |-> 0]]
  /\ mutations = [w \in Workers |-> {}]
  /\ mutationsQueued = [w \in Workers |-> FALSE]
  /\ waitPromise = [w \in Workers |-> "parked"]
  /\ initialized = [w \in Workers |-> TRUE]
  /\ epc = [w \in Workers |-> "idle"]
  /\ eTodo = [w \in Workers |-> {}]
  /\ eIdx = [w \in Workers |-> 0]
  /\ eExpected = [w \in Workers |-> 0]
  /\ lastChange = [w \in Workers |-> [p \in Props |-> <<>>]]
  /\ changeCalls = [w \in Workers |-> 0]
  /\ nWrites = [w \in Workers |-> 0]
  /\ lastWrite = [w \in Workers |-> [p \in Props |-> <<>>]]
  /\ loop \in {NewLoop(w) : w \in Workers}

NextLoop ==
  \/ UserTask
  \/ UserYields
  \/ UserReturns
  \/ \E p \in Props, v \in Values : UserSet(p, v)
  \/ UserDestroy
  \/ UserFlush
  \/ FlushAcquires
  \/ UserExtract
  \/ QueuedMicrotask
  \/ LockAsyncResumes
  \/ MicrotaskResumes
  \/ LockWaitResolves
  \/ WakeHandler
  \/ \E p \in Props, v \in Values : PeerSet(p, v)
  \/ PeerLocks
  \/ PeerUnlocks

SpecLoop == InitLoop /\ [][NextLoop]_vars

(***************************************************************************)
(* Properties: destroy, flush                                              *)
(***************************************************************************)
\* C32: every property write staged on the object before destroy() was
\* called has been taken by a locked cycle (written to the buffer, or dropped
\* in favour of the peer's value) by the time finishDestroy releases the
\* object's buffer reference.
C32_StagedFlushedBeforeRelease ==
  (loop.made /\ ~loop.hasStruct) => loop.pending = {}

\* finishDestroy has run on the object the loop follows.
Released == loop.made /\ ~loop.hasStruct

\* C33: after finishDestroy has run, no step starts a mutation cycle of the
\* object, calls its onPropertyChange or writes the buffer on its behalf
\* (only the peer's locked cycle changes the buffer), whatever wakes, queued
\* microtasks or setter calls follow; and the step that runs finishDestroy
\* resolves the peer's handle parked on the notify word.
C33_InertAfterFinishDestroy ==
  [][/\ Released =>
          /\ ~loop'.late
          /\ changeCalls'[loop.w] = changeCalls[loop.w]
          /\ lastChange'[loop.w] = lastChange[loop.w]
          /\ bufVars' # bufVars => lockWord = lockId[Peer(loop.w)]
     /\ (loop.made /\ loop.hasStruct /\ ~loop'.hasStruct) =>
          (waitPromise[Peer(loop.w)] = "parked" =>
             waitPromise'[Peer(loop.w)] = "ok")]_vars

\* The object was destroyed with the peer parked; since then a setter call
\* was made and its microtask has run, the wake handler has run, and the peer
\* has written and notified: the write stays unconsumed in the buffer.
C33_Witness ==
  /\ Released
  /\ loop.last.op = "set" /\ mutations[loop.w] # {}
  /\ loop.queue = <<>> /\ ~mutationsQueued[loop.w]
  /\ waitPromise[loop.w] = "dead"
  /\ notifyWord = Peer(loop.w) /\ IsDirty(dirty)
  /\ lockWord = 0 /\ loop.parked = 0 /\ loop.woken = 0

\* The call user code makes in a step, if it makes one.
UserCalls(op) == loop.made /\ loop'.ops = loop.ops + 1 /\ loop'.last.op = op

Handles(w) == chan[w] # <<>> /\ chan'[w] = Tail(chan[w])
\* The messages worker w posts in this step, and the responses among them.
PostedNow(w) == SubSeq(postLog'[w], Len(postLog[w]) + 1, Len(postLog'[w]))
ResponsesNow(w) == SelectSeq(PostedNow(w), LAMBDA x : x.type = "response")
\* The 'shareObjects' handler of w threw: no object was built.
ShareHandlerThrew(w) == soLife'[w] = soLife[w]

C36_SuppressCleared ==
  /\ \A w \in Workers : ~suppress[w]
  /\ \A e \in 1 .. Len(evLog) :
       evLog[e].phase = "confirmed" => evLog[e].fate = "post"

(***************************************************************************)
(* Properties: emit                                                        *)
(***************************************************************************)
\* C37: every emit(event, data) made by user code invoked all the listeners
\* registered for the event, once each and in registration order, whatever
\* the share state of the object was: unshared, pending, confirmed, or
\* confirmed with the peer worker closed since.
C37_EveryListenerInvoked ==
  \A e \in 1 .. Len(evLog) : evLog[e].heard = EventListeners

(***************************************************************************)
(* Properties: flush completes                                             *)
(***************************************************************************)
\* The event loop runs its jobs, a waiting lock() takes the lock whenever it
\* is free, and the peer releases the lock it holds.
SpecLoopFair ==
  /\ SpecLoop
  /\ WF_vars(QueuedMicrotask) /\ WF_vars(LockAsyncResumes)
  /\ WF_vars(MicrotaskResumes) /\ WF_vars(LockWaitResolves)
  /\ WF_vars(WakeHandler)
  /\ WF_vars(UserReturns)
  /\ SF_vars(FlushAcquires)
  /\ WF_vars(PeerUnlocks)

\* C38: a flush() call that has entered lock() returns, the peer releasing
\* the lock whenever it holds it - also when the caller's own asynchronous
\* cycle holds the lock across a microtask boundary.
C38_FlushCompletes ==
  (loop.made /\ loop.blocked = "flush") ~> (loop.made /\ loop.blocked = "no")

(***************************************************************************)
(* BufferStruct.lock / lockAsync: compareExchange and wait, step by step   *)
(***************************************************************************)
\* The views of the one buffer: view 1 lives on the main thread.
ParkViews == 1 .. 3
\* lock / lockAsync calls made in one run, in total.
MaxParkCalls == 4

\* A wait that parks whatever the lock word holds.
WaitParksAlways(word, expected) == TRUE
\* Atomics.wait / Atomics.waitAsync(int32array, LOCK_INT32_INDEX, origLock):
\* the caller is parked when the word still holds the expected value; else
\* the call returns 'not-equal' at once.
WaitParks(word, expected) == word = expected

\* Every view has a lock id (a random integer, C27); no call has been made.
NewPark(ids) ==
  [made |-> TRUE, id |-> ids,
   pc |-> [v \in ParkViews |-> "idle"],
   mode |-> [v \in ParkViews |-> "async"],
   expected |-> [v \in ParkViews |-> 0],
   waited |-> [v \in ParkViews |-> FALSE],
   woke |-> [v \in ParkViews |-> FALSE],
   calls |-> 0]

\* What the parking specification never touches.
ParkFrame ==
  /\ UNCHANGED <<bufVars, soVars, rtVars, lifeVars, closeVars, staticVars>>
  /\ UNCHANGED <<lockId, lkParked, lkWoken, lkMode, lkCb, hold, outcome>>
  /\ UNCHANGED <<codec, struct, waiters, cyc, loop>>

\* The calls that differ in how they wait: lock() on the main thread spins;
\* lock() in a worker and lockAsync() anywhere park on the lock word.
ParkModes(v) == IF CanAtomicsWait(v) THEN {"async"} ELSE {"sync", "async"}

\* View v calls lock(callback) ("sync") or lockAsync(callback) ("async").
ParkCall(v, mode) ==
  /\ park.made
  /\ park.pc[v] = "idle"
  /\ park.calls < MaxParkCalls
  /\ park' = [park EXCEPT !.pc[v] = "try", !.mode[v] = mode,
                          !.waited[v] = FALSE, !.woke[v] = FALSE,
                          !.calls = @ + 1]
  /\ UNCHANGED lockWord
  /\ ParkFrame

\* Atomics.compareExchange(.., 0, lockId): on 0 the callback is entered, else
\* the loop body is.
ParkCompareExchange(v) ==
  LET origLock == CompareExchangeLoad(lockWord) IN
  /\ park.made
  /\ park.pc[v] = "try"
  /\ lockWord' = CompareExchangeStore(lockWord, park.id[v])
  /\ park' = IF origLock = 0
               THEN [park EXCEPT !.pc[v] = "cs", !.expected[v] = 0]
               ELSE [park EXCEPT !.pc[v] = "failed", !.expected[v] = origLock,
                                 !.waited[v] = TRUE]
  /\ ParkFrame

\* The loop body: Atomics.wait (which throws on the main thread: spin) or
\* await Atomics.waitAsync(..).value, then compareExchange again.
ParkWait(v) ==
  /\ park.made
  /\ park.pc[v] = "failed"
  /\ park' = IF park.mode[v] = "sync" /\ ~CanAtomicsWait(v)
               THEN [park EXCEPT !.pc[v] = "try"]
               ELSE IF WaitParks(lockWord, park.expected[v])
                 THEN [park EXCEPT !.pc[v] = "parked"]
                 ELSE [park EXCEPT !.pc[v] = "try"]
  /\ UNCHANGED lockWord
  /\ ParkFrame

\* The callback has ended: finally { Atomics.store(.., 0); ..
ParkCallbackEnds(v) ==
  /\ park.made
  /\ park.pc[v] = "cs"
  /\ lockWord' = ReleaseStore(v)
  /\ park' = [park EXCEPT !.pc[v] = "stored"]
  /\ ParkFrame

\* .. Atomics.notify(int32array, LOCK_INT32_INDEX) }: every view parked on
\* the lock word is woken; the call returns.
ParkNotify(v) ==
  /\ park.made
  /\ park.pc[v] = "stored"
  /\ park' = [park EXCEPT
                !.pc = [u \in ParkViews |->
                          IF u = v THEN "idle"
                          ELSE IF park.pc[u] = "parked" THEN "try"
                          ELSE park.pc[u]],
                !.woke = [u \in ParkViews |->
                            u # v /\ (park.woke[u] \/ park.pc[u] = "parked")],
                !.waited[v] = FALSE,
                !.mode[v] = "async"]
  /\ UNCHANGED lockWord
  /\ ParkFrame

InitPark ==
  /\ FreshBuffer
  /\ RouterAtRest
  /\ LifeAtRest
  /\ CloseAtRest
  /\ StaticAtRest
  /\ CodecAtRest
  /\ StructAtRest
  /\ NotifyAtRest
  /\ CycleAtRest
  /\ LoopAtRest
  /\ NoSharedObjects
  /\ lockWord = 0
  /\ lockId = [w \in Workers |-> w]
  /\ lkParked = [w \in Workers |-> 0]
  /\ lkWoken = [w \in Workers |-> 0]
  /\ lkMode = [w \in Workers |-> "async"]
  /\ lkCb = [w \in Workers |-> "returns"]
  /\ hold = [w \in Workers |-> "none"]
  /\ outcome = [w \in Workers |-> "none"]
  /\ park \in {NewPark(ids) : ids \in [ParkViews -> LockIds]}

NextPark ==
  \E v \in ParkViews :
    \/ \E mode \in ParkModes(v) : ParkCall(v, mode)
    \/ ParkCompareExchange(v)
    \/ ParkWait(v)
    \/ ParkCallbackEnds(v)
    \/ ParkNotify(v)

SpecPark == InitPark /\ [][NextPark]_vars

\* Every call that has started goes on, and every critical section ends.
SpecParkFair ==
  /\ SpecPark
  /\ \A v \in ParkViews :
       /\ WF_vars(ParkCompareExchange(v))
       /\ WF_vars(ParkWait(v))
       /\ WF_vars(ParkCallbackEnds(v))
       /\ WF_vars(ParkNotify(v))

(***************************************************************************)
(* Properties: no lost wake-up                                             *)
(***************************************************************************)
Parked(v) == park.made /\ park.pc[v] = "parked"
\* The call of v has failed a compareExchange and has not entered yet.
WaitingToEnter(v) ==
  park.made /\ park.waited[v] /\ park.pc[v] \in {"try", "failed", "parked"}
\* A call that had to wait is in its callback.
EnteredAfterWait(v) == park.made /\ park.waited[v] /\ park.pc[v] = "cs"

\* A view is parked only while a release is still to come: a view is in its
\* callback with the lock word non-zero, or has stored 0 and not yet notified.
C39_ParkedHasWaker ==
  \A v \in ParkViews :
    Parked(v) =>
      \/ \E u \in ParkViews \ {v} : park.pc[u] = "stored"
      \/ lockWord # 0 /\ \E u \in ParkViews \ {v} : park.pc[u] = "cs"

\* C39: a parked view is woken by the release (no view stays parked with the
\* lock word 0 and no holder left), and while calls are waiting to enter,
\* one of them eventually enters its callback.
C39_NoLostWakeup ==
  /\ []C39_ParkedHasWaker
  /\ \A v \in ParkViews : Parked(v) ~> ~Parked(v)
  /\ (\E v \in ParkViews : WaitingToEnter(v))
       ~> (\E v \in ParkViews : EnteredAfterWait(v))

\* A view that was parked on the lock word and woken by a release is in its
\* callback, while another view waits.
C39_Witness ==
  /\ park.made
  /\ \E v \in ParkViews :
       /\ park.pc[v] = "cs" /\ park.woke[v]
       /\ \E u \in ParkViews \ {v} : park.pc[u] = "parked"

(***************************************************************************)
(* Properties: the shared-object map                                       *)
(***************************************************************************)
\* C40: the object a router's shared-object map holds has not been destroyed
\* (isDestroyed is false), whatever shareObjects, forgetObjects and destroy
\* calls and inbound messages came before.
C40_MapHoldsNoDestroyed ==
  \A w \in Workers :
    mapInst[w] # <<>> => soLife[w][mapInst[w][1]] # "destroyed"
====
